---- MODULE Spec2Model ----
(***************************************************************************)
(* Model of the Klaviyo Airbyte connector and of the source base it runs   *)
(* on:                                                                     *)
(*   - the legacy sync driver AirbyteSourceBase.read / doReadStream        *)
(*     (faros-airbyte-cdk/src/sources/source-base.ts),                     *)
(*   - the spool FileBufferedProcessor and the orchestrator                *)
(*     KlaviyoStream.parallelSequentialRead (streams/klaviyo.ts, latest    *)
(*     revision),                                                          *)
(*   - the rate-limited client calls Klaviyo.withLimiter / fetchAll and    *)
(*     the stream callbacks that use them.                                 *)
(* Each part has its own specification over the shared variables; the      *)
(* variables of the other parts stay at their initial values.              *)
(***************************************************************************)
EXTENDS Integers, Sequences, FiniteSets, TLC

\* ------------------------------------------------------------------ bounds
MaxTime == 2          \* cursor values of records are 1..MaxTime
MaxRecords == 2       \* records read by one run of read
NSlices == 2          \* slices of a sliced stream
MaxShards == 2        \* shards handed to one parallelSequentialRead call
MaxShardRecords == 2  \* records one shard generator yields
MaxLineLen == 7       \* characters of the longest JSON line (without the newline)
MaxCalls == 3         \* calls handed to the Klaviyo client
MaxNow == 5           \* the clock of the limiter model stops here
MaxSource == 3        \* records the API holds for the stream read twice
MaxCursor == 8        \* largest cursor value of an event
MaxCampaignCursor == 3  \* largest cursor value of a campaign

Times == 1..MaxTime
Intervals == {0, 1, 2}  \* values of stateCheckpointInterval

Max(a, b) == IF a >= b THEN a ELSE b

\* =========================================================================
\*  Part 1: the sync driver (AirbyteSourceBase.read, legacy state format)
\* =========================================================================

VARIABLES
  catalog,             \* names of catalog.streams, in catalog order
  deps,                \* <<d, s>>: stream s declares the dependency d
  backfill,            \* config.backfill
  maxSliceFailures,    \* config.max_slice_failures: {} is null, {k} is k
  maxStreamFailures,   \* config.max_stream_failures: {} is null, {k} is k
  checkpointInterval,  \* streamInstance.stateCheckpointInterval
  sliced,              \* streamSlices yields slice objects (TRUE) or the single undefined slice
  state0,              \* the state map handed to read
  connectorState,      \* the state map, mutated in place by checkpointState / errorState
  streamState,         \* doReadStream's local streamState
  dpc,                 \* position of read / doReadStream
  si,                  \* index of the current stream in sortedStreams
  sliceNo,             \* index of the current slice
  sliceRecordCounter,
  streamRecordCounter,
  failedSlices,        \* the slices that failed, by their number
  failedStreams,       \* names of failed streams, in order
  pendingError,        \* the error doReadStream throws to read (NoError when none)
  readError,           \* the error read itself fails with (NoError when none)
  nrec,                \* records read so far in this run
  hooks,               \* calls of the current stream's onBeforeRead / onAfterRead
  out                  \* the messages yielded by read, in order

driverVars == <<catalog, deps, backfill, maxSliceFailures, maxStreamFailures, checkpointInterval,
                sliced, state0, connectorState, streamState, dpc, si, sliceNo,
                sliceRecordCounter, streamRecordCounter, failedSlices, failedStreams,
                pendingError, readError, nrec, hooks, out>>

\* ---- state of the spool and of parallelSequentialRead (Part 2) ----
VARIABLES
  nShards,       \* args.length
  parallel,      \* options.parallel
  dedupe,        \* options.dedupe && !!this.primaryKey
  lineLen,       \* characters of one JSON line of this run (without the newline)
  aborted,       \* controller.signal.aborted
  ppc,           \* per shard: position of its throat wrapper / producer
  slot,          \* per shard: the wrapper holds a throat slot
  buffer,        \* per shard: the producer's string buffer
  wq,            \* per shard: blocks handed to the write stream, not yet in the file
  file,          \* per shard: content of the spool file
  fileExists,    \* per shard: the spool file is on disk
  writeWorker,   \* per shard: this.writeWorker
  isDone,        \* per shard: this.isDone
  written,       \* per shard: the records its generator yielded, in order
  firstError,    \* shard of the first producer failure (0: none)
  unhandled,     \* a rejected wrapper promise nobody awaits
  cpc,           \* position of parallelSequentialRead / process
  ci,            \* loop index i + 1 of the sequential loop
  pos,           \* bytes of the current spool file read so far
  chunkN,        \* bytes the issued fd.read returns
  lastPartial,   \* process's lastPartial
  pendingLines,  \* complete lines of the current chunk not yet parsed
  lastIds,       \* this.lastIds
  currentIds,    \* this.currentIds
  drained,       \* records process() handed to the orchestrator, in order
  psrError       \* the error parallelSequentialRead failed with ("" when none)

psrCfg == <<nShards, parallel, dedupe, lineLen>>
prodVars == <<ppc, slot, buffer, wq, file, written, writeWorker, isDone,
              firstError, unhandled>>
consVars == <<ci, pos, chunkN, lastPartial, pendingLines, lastIds, currentIds,
              drained, psrError>>
psrOwn == <<psrCfg, prodVars, consVars, cpc, fileExists>>
psrVars == <<psrOwn, aborted>>

\* ---- state of the Klaviyo client's limiter and retry (Part 3) ----
VARIABLES
  kind,          \* per call: which call site issued it
  jst,           \* per call: position in withRetry / limiter.schedule
  attempts,      \* per call: attempts backOff has made
  running,       \* jobs the limiter is executing
  reservoir,     \* the limiter's reservoir
  now,           \* time since the limiter was created
  nextRequest,   \* earliest time of the limiter's next dispatch
  lastRefresh,   \* time of the last reservoir refresh
  httpLog        \* the HTTP requests sent, in order

httpVars == <<kind, jst, attempts, running, reservoir, now, nextRequest,
              lastRefresh, httpLog>>

\* ---- state of a stream that is read twice (Part 4) ----
VARIABLES
  streamKind,    \* which stream is read: "events" or "campaigns"
  source,        \* the records the API holds, by id
  run,           \* 1: the first run, 2: the run resumed from a STATE of the first
  rpc,           \* position of doReadStream in the current run
  records,       \* what the readRecords generator has still to yield
  rStreamState,  \* streamState of the current run
  rCheckpoint,   \* the stream's entry in the last STATE message emitted
  rCounter,      \* sliceRecordCounter of the current run
  emitted,       \* ids of the records the current run has emitted
  acked          \* ids the first run emitted before its last STATE message

resVars == <<streamKind, source, run, rpc, records, rStreamState, rCheckpoint,
             rCounter, emitted, acked>>

\* ---- state of an AirbyteStateManager and of a getUpdatedState call (Part 5) ----
VARIABLES
  smInput,       \* the state sequence the manager was constructed from
  smType,        \* this.type
  smStreams,     \* this.streams: per stream the object its key refers to
  smGlobal,      \* this.global: the object it refers to
  heap,          \* the contents of the objects
  smAlloc,       \* number of objects allocated so far
  smHeld,        \* objects a caller passed to or received from the manager
  smWritten,     \* setStateForStream has been called
  smEnvelope,    \* the envelope built last
  guStream,      \* the stream whose getUpdatedState is called
  guCurrent,     \* its argument currentStreamState
  guRecord,      \* the cursor string of its argument latestRecord
  guResult       \* what the call returned or threw

smVars == <<smInput, smType, smStreams, smGlobal, heap, smAlloc, smHeld, smWritten,
            smEnvelope>>
guVars == <<guStream, guCurrent, guRecord, guResult>>

\* ---- state of a stream run of the V2 read path (Part 6) ----
VARIABLES
  v2pc,          \* position of doReadStreamV2
  v2Name,        \* the stream that is read
  v2Interval,    \* its stateCheckpointInterval
  v2State,       \* doReadStreamV2's streamState: {stream, global}
  v2Count,       \* sliceRecordCounter
  v2Out,         \* the messages yielded so far
  v2Hooks        \* calls of onBeforeRead and onAfterRead

v2Vars == <<v2pc, v2Name, v2Interval, v2State, v2Count, v2Out, v2Hooks>>
\* ---- state of a momentRanges call (Part 7) ----
VARIABLES
  mrIn,          \* the options: from, to, step, stepOverlap, startOverlap
  mrD,           \* the loop's moment d
  mrIsFirst,     \* isFirst
  mrRanges,      \* ranges
  mrpc           \* position of momentRanges

mrVars == <<mrIn, mrD, mrIsFirst, mrRanges, mrpc>>

\* ---- state of a fetchAll call (Part 8) ----
VARIABLES
  faServer,      \* the response the endpoint gives for each page cursor
  faNext,        \* next
  faCalls,       \* the cursors fn was called with, in order
  faOut,         \* the pages fetchAll yielded, in order
  fapc           \* position of fetchAll

faVars == <<faServer, faNext, faCalls, faOut, fapc>>

\* ---- state of a withRetry call (Part 9) ----
VARIABLES
  wrAttempt,     \* backOff's attempt number: the attempts that have failed
  wrDelays,      \* the number of delays applied so far
  wrWait,        \* the delay applied before the attempt under way, in seconds
  wrError,       \* the status of the last failed attempt, 0 when none
  wrThrown,      \* the status of the error withRetry failed with, 0 when none
  wrpc           \* position of backOff

wrVars == <<wrAttempt, wrDelays, wrWait, wrError, wrThrown, wrpc>>

auxVars == <<mrVars, faVars, wrVars>>
extVars == <<v2Vars, auxVars>>
unitVars == <<smVars, guVars, extVars>>
\* what the actions of Part 6 leave alone besides the manager
v2Frame == <<driverVars, psrVars, httpVars, resVars, guVars, auxVars>>
\* what the actions of Parts 7 to 9 leave alone besides their own part
auxFrame == <<driverVars, psrVars, httpVars, resVars, smVars, guVars, v2Vars>>

vars == <<driverVars, psrVars, httpVars, resVars, unitVars>>

Streams == {"A", "B"}
\* this.streams(config), in the order the source returns them
streamInstances == <<"A", "B">>
\* Object.keys(configuredStreams)
configuredStreamNames == {catalog[i] : i \in 1..Len(catalog)}
\* Mutant: every requested stream is taken to exist
missingStreams_none == <<>>
\* read, lines 172-174: configuredStreamNames.filter(n => !streamInstances[n])
missingStreams ==
  SelectSeq(catalog, LAMBDA n : \A i \in 1..Len(streamInstances) : streamInstances[i] # n)
\* read, lines 185-198: the dependencies between requested streams
streamDeps ==
  {e \in deps : e[1] \in configuredStreamNames /\ e[2] \in configuredStreamNames}

\* toposort's outgoing edges of a node, in the order read pushed them
Outgoing(node) == SelectSeq(streamInstances, LAMBDA s : <<node, s>> \in streamDeps)
\* toposort's visit(node, i, predecessors): depth first over the outgoing edges,
\* last edge first; a node is placed in front of what is sorted so far after
\* the nodes that depend on it; meeting a predecessor again is a cycle
RECURSIVE Visit(_, _, _)
RECURSIVE VisitAll(_, _, _)
Visit(node, preds, st) ==
  IF st.cyclic THEN st
  ELSE IF node \in preds THEN [st EXCEPT !.cyclic = TRUE]
  ELSE IF node \in st.visited THEN st
  ELSE LET st1 == [st EXCEPT !.visited = @ \cup {node}]
           st2 == VisitAll(Outgoing(node), preds \cup {node}, st1)
       IN [st2 EXCEPT !.sorted = <<node>> \o @]
VisitAll(children, preds, st) ==
  IF children = <<>> THEN st
  ELSE VisitAll(SubSeq(children, 1, Len(children) - 1), preds,
                Visit(children[Len(children)], preds, st))
\* toposort.array(nodes, edges): the nodes are visited from the last to the first
Toposort == VisitAll(catalog, {}, [sorted |-> <<>>, visited |-> {}, cyclic |-> FALSE])
\* Mutant: the streams are read in catalog order
sortedStreams_catalog == catalog
\* read, line 201
sortedStreams == Toposort.sorted

\* A stream's entry of the state map: absent key, {} or {cutoff: c}
Absent == [present |-> FALSE, has |-> FALSE, cutoff |-> 0]
EmptyState == [present |-> TRUE, has |-> FALSE, cutoff |-> 0]
Cutoff(c) == [present |-> TRUE, has |-> TRUE, cutoff |-> c]
StreamStates == {Absent, EmptyState} \cup {Cutoff(c) : c \in Times}

\* connectorState[streamName] ?? {}
InitialStreamState(cs, s) == IF cs[s].present THEN cs[s] ELSE EmptyState

\* Mutant: the newest record's cursor replaces the cutoff (no Math.max)
getUpdatedState_last(cur, t) == Cutoff(t)
\* Events.getUpdatedState: {cutoff: Math.max(current?.cutoff ?? 0, epoch_ms(record[cursor]))}
getUpdatedState(cur, t) == Cutoff(Max(IF cur.has THEN cur.cutoff ELSE 0, t))

NoData == [s \in Streams |-> Absent]
RecordMsg(s, t) ==
  [type |-> "RECORD", stream |-> s, cursor |-> t, data |-> NoData,
   sourceStatus |-> "", streamStatus |-> "", recordsEmitted |-> 0]
\* AirbyteStateMessage({data: connectorState}), serialized when it is yielded
StateMsg(cs) ==
  [type |-> "STATE", stream |-> "", cursor |-> 0, data |-> cs,
   sourceStatus |-> "", streamStatus |-> "", recordsEmitted |-> 0]
\* AirbyteSourceStatusMessage({data}, {status}, {name, status, recordsEmitted})
StatusMsg(cs, status, s, sstatus, n) ==
  [type |-> "STATE", stream |-> s, cursor |-> 0, data |-> cs,
   sourceStatus |-> status, streamStatus |-> sstatus, recordsEmitted |-> n]
ConfigMsg(cs) ==
  [type |-> "CONFIG", stream |-> "", cursor |-> 0, data |-> cs,
   sourceStatus |-> "", streamStatus |-> "", recordsEmitted |-> 0]

\* Mutant: the stream state is not copied into the connector state
SetState_keep(cs, s, st) == cs
\* checkpointState / errorState: connectorState[streamName] = streamState
SetState(cs, s, st) == [cs EXCEPT ![s] = st]

CurStream == sortedStreams[si]
\* Stream A may override streamSlices; stream B keeps the default, which yields
\* the single undefined slice (as every Klaviyo stream does)
HasSlice == sliced /\ CurStream = "A"
NumSlices == IF HasSlice THEN NSlices ELSE 1

\* Mutant: the checkpoint is yielded before the record that produced it
RecordMessages_stateFirst(s, t, cs, checkpoint) ==
  IF checkpoint THEN <<StateMsg(cs), RecordMsg(s, t)>> ELSE <<RecordMsg(s, t)>>
\* The messages one iteration of the record loop yields (source-base.ts 389-407)
RecordMessages(s, t, cs, checkpoint) ==
  IF checkpoint THEN <<RecordMsg(s, t), StateMsg(cs)>> ELSE <<RecordMsg(s, t)>>

\* an error and what its message lists; NoError: nothing was thrown
ErrorOf(name, list) == [name |-> name, list |-> list]
NoError == ErrorOf("", <<>>)

\* Mutant: a NonFatalError is reported like any other error
ErrorStatus_errored(nonFatal) == "ERRORED"
\* errorState, line 503: error instanceof NonFatalError ? 'RUNNING' : 'ERRORED'
ErrorStatus(nonFatal) == IF nonFatal THEN "RUNNING" ELSE "ERRORED"

\* Mutant: the slice loop is left when the budget is reached
SliceFailuresExceeded_atLeast(n) ==
  maxSliceFailures # {-1} /\ (\A k \in maxSliceFailures : n >= k)
\* doReadStream, lines 456-459: max_slice_failures !== -1 &&
\* failedSlices.length > max_slice_failures
SliceFailuresExceeded(n) ==
  maxSliceFailures # {-1} /\ (\A k \in maxSliceFailures : n > k)

\* Mutant: the stream loop is left when the budget is reached
StreamFailuresExceeded_atLeast(n) ==
  maxStreamFailures # {-1} /\ (\A k \in maxStreamFailures : n >= k)
\* read, lines 273-276: max_stream_failures !== -1 &&
\* failedStreams.length > max_stream_failures
StreamFailuresExceeded(n) ==
  maxStreamFailures # {-1} /\ (\A k \in maxStreamFailures : n > k)

\* Mutant: read never reports the failed streams
AnyStreamFailed_never == FALSE
\* read, line 286: failedStreams.length > 0
AnyStreamFailed == Len(failedStreams) > 0

\* Mutant: errorState rebuilds the state map from the failing stream alone
errorStateWrite_alone(cs, s, st) == [t \in DOMAIN cs |-> IF t = s THEN st ELSE Absent]
\* errorState line 500: connectorState[streamName] = streamState, unconditionally
errorStateWrite(cs, s, st) == SetState(cs, s, st)

\* the catalogs handed to read, each with the dependencies the streams declare:
\* none; B on A against the catalog order; A on B against the catalog order;
\* a cycle; a dependency on a stream the catalog does not request; a catalog
\* that requests a stream the source does not have
Catalogs ==
  { <<(<<"A", "B">>), {}>>,
    <<(<<"B", "A">>), {<<"A", "B">>}>>,
    <<(<<"A", "B">>), {<<"B", "A">>}>>,
    <<(<<"A", "B">>), {<<"A", "B">>, <<"B", "A">>}>>,
    <<(<<"B">>), {<<"A", "B">>}>>,
    <<(<<"A", "C">>), {}>> }

DriverInit ==
  /\ \E c \in Catalogs : catalog = c[1] /\ deps = c[2]
  /\ backfill \in BOOLEAN
  /\ sliced \in BOOLEAN
  \* max_slice_failures is only read for a slice that is an object
  /\ maxSliceFailures \in IF sliced THEN {{}, {-1}, {0}, {1}} ELSE {{}, {0}}
  /\ maxStreamFailures \in {{}, {-1}, {0}, {1}}
  \* the checkpoint interval is only read when backfill is off
  /\ checkpointInterval \in IF backfill THEN {0} ELSE Intervals
  \* a first sync of the stream, or a cutoff left by an earlier sync
  /\ state0 \in {f \in [Streams -> StreamStates] :
                   f["B"] \in {Absent, Cutoff(1)} /\ f["A"] \in {Absent, Cutoff(MaxTime)}}
  /\ connectorState = state0
  /\ streamState = EmptyState
  /\ dpc = "start"
  /\ si = 1
  /\ sliceNo = 1
  /\ sliceRecordCounter = 0
  /\ streamRecordCounter = 0
  /\ failedSlices = <<>>
  /\ failedStreams = <<>>
  /\ pendingError = NoError
  /\ readError = NoError
  /\ hooks = [before |-> 0, after |-> 0]
  /\ nrec = 0
  /\ out = <<>>

\* read, lines 154-203: the config message, the check of the requested streams,
\* the order of the streams (toposort throws on a cyclic dependency), then the
\* stream loop
ReadStart ==
  /\ dpc = "start"
  /\ out' = Append(out, ConfigMsg(connectorState))
  /\ IF missingStreams # <<>>
       THEN dpc' = "failed" /\ readError' = ErrorOf("NotFound", missingStreams)
       ELSE IF Toposort.cyclic
         THEN dpc' = "failed" /\ readError' = ErrorOf("CyclicDependency", <<>>)
         ELSE dpc' = "stream" /\ UNCHANGED readError
  /\ UNCHANGED <<hooks, catalog, deps, backfill, maxSliceFailures, maxStreamFailures, checkpointInterval,
                 sliced, state0, connectorState, streamState, si, sliceNo,
                 sliceRecordCounter, streamRecordCounter, failedSlices,
                 failedStreams, pendingError, nrec>>
  /\ UNCHANGED <<psrVars, httpVars, resVars, unitVars>>

\* readStream / doReadStream up to the slice loop, lines 343-371
StreamBegin ==
  /\ dpc = "stream"
  /\ si <= Len(sortedStreams)
  /\ streamState' = IF backfill THEN EmptyState
                    ELSE InitialStreamState(connectorState, CurStream)
  /\ failedSlices' = <<>>
  /\ streamRecordCounter' = 0
  /\ sliceNo' = 1
  /\ pendingError' = NoError
  /\ dpc' = "slice"
  /\ hooks' = [before |-> 1, after |-> 0]
  /\ UNCHANGED <<catalog, deps, backfill, maxSliceFailures, maxStreamFailures, checkpointInterval,
                 sliced, state0, connectorState, si, sliceRecordCounter,
                 failedStreams, readError, nrec, out>>
  /\ UNCHANGED <<psrVars, httpVars, resVars, unitVars>>

\* for await (const slice of slices): next slice, lines 372-386
SliceBegin ==
  /\ dpc = "slice"
  /\ sliceNo <= NumSlices
  /\ sliceRecordCounter' = 0
  /\ dpc' = "records"
  /\ UNCHANGED <<hooks, catalog, deps, backfill, maxSliceFailures, maxStreamFailures, checkpointInterval,
                 sliced, state0, connectorState, streamState, si, sliceNo,
                 streamRecordCounter, failedSlices, failedStreams, pendingError,
                 readError, nrec, out>>
  /\ UNCHANGED <<psrVars, httpVars, resVars, unitVars>>

\* one iteration of for await (const recordData of records), lines 388-409
ReadRecord(t) ==
  /\ dpc = "records"
  /\ nrec < MaxRecords
  /\ LET st == IF backfill THEN streamState ELSE getUpdatedState(streamState, t)
         cp == /\ ~backfill
               /\ checkpointInterval # 0
               /\ (sliceRecordCounter + 1) % checkpointInterval = 0
         cs == IF cp THEN SetState(connectorState, CurStream, st) ELSE connectorState
     IN /\ streamState' = st
        /\ connectorState' = cs
        /\ out' = out \o RecordMessages(CurStream, t, cs, cp)
  /\ sliceRecordCounter' = sliceRecordCounter + 1
  /\ streamRecordCounter' = streamRecordCounter + 1
  /\ nrec' = nrec + 1
  /\ UNCHANGED <<hooks, catalog, deps, backfill, maxSliceFailures, maxStreamFailures, checkpointInterval,
                 sliced, state0, dpc, si, sliceNo, failedSlices, failedStreams,
                 pendingError, readError>>
  /\ UNCHANGED <<psrVars, httpVars, resVars, unitVars>>

\* the records generator is exhausted, lines 410-419
SliceEnd ==
  /\ dpc = "records"
  /\ IF backfill
       THEN UNCHANGED <<connectorState, out>>
       ELSE LET cs == SetState(connectorState, CurStream, streamState)
            IN /\ connectorState' = cs
               /\ out' = Append(out, StateMsg(cs))
  /\ sliceNo' = sliceNo + 1
  /\ dpc' = "slice"
  /\ UNCHANGED <<hooks, catalog, deps, backfill, maxSliceFailures, maxStreamFailures, checkpointInterval,
                 sliced, state0, streamState, si, sliceRecordCounter,
                 streamRecordCounter, failedSlices, failedStreams, pendingError,
                 readError, nrec>>
  /\ UNCHANGED <<psrVars, httpVars, resVars, unitVars>>

\* readRecords raises a NonFatalError, lines 421-436
SliceNonFatal ==
  /\ dpc = "records"
  /\ LET cs == errorStateWrite(connectorState, CurStream, streamState)
     IN /\ connectorState' = cs
        /\ out' = Append(out, StatusMsg(cs, ErrorStatus(TRUE), CurStream, "ERROR",
                                        streamRecordCounter))
  /\ sliceNo' = sliceNo + 1
  /\ dpc' = "slice"
  /\ UNCHANGED <<hooks, catalog, deps, backfill, maxSliceFailures, maxStreamFailures, checkpointInterval,
                 sliced, state0, streamState, si, sliceRecordCounter,
                 streamRecordCounter, failedSlices, failedStreams, pendingError,
                 readError, nrec>>
  /\ UNCHANGED <<psrVars, httpVars, resVars, unitVars>>

\* readRecords raises another error, lines 438-465
SliceError ==
  /\ dpc = "records"
  /\ IF ~HasSlice \/ maxSliceFailures = {}
       THEN \* throw e
            /\ pendingError' = ErrorOf("Error", <<>>)
            /\ dpc' = "caught"
            /\ UNCHANGED <<connectorState, out, failedSlices, sliceNo>>
       ELSE LET cs == errorStateWrite(connectorState, CurStream, streamState)
                fs == Append(failedSlices, sliceNo)
            IN /\ connectorState' = cs
               /\ out' = Append(out, StatusMsg(cs, ErrorStatus(FALSE), CurStream,
                                               "ERROR", streamRecordCounter))
               /\ failedSlices' = fs
               /\ sliceNo' = sliceNo + 1
               /\ dpc' = IF SliceFailuresExceeded(Len(fs)) THEN "after" ELSE "slice"
               /\ UNCHANGED pendingError
  /\ UNCHANGED <<hooks, catalog, deps, backfill, maxSliceFailures, maxStreamFailures, checkpointInterval,
                 sliced, state0, streamState, si, sliceRecordCounter,
                 streamRecordCounter, failedStreams, readError, nrec>>
  /\ UNCHANGED <<psrVars, httpVars, resVars, unitVars>>

\* the slice loop is left (exhausted or break): onAfterRead, lines 467-481
AfterRead ==
  /\ \/ dpc = "after"
     \/ dpc = "slice" /\ sliceNo > NumSlices
  /\ IF Len(failedSlices) > 0
       THEN pendingError' = ErrorOf("VError", failedSlices) /\ dpc' = "caught"
       ELSE pendingError' = NoError /\ dpc' = "success"
  /\ hooks' = [hooks EXCEPT !.after = @ + 1]
  /\ UNCHANGED <<catalog, deps, backfill, maxSliceFailures, maxStreamFailures, checkpointInterval,
                 sliced, state0, connectorState, streamState, si, sliceNo,
                 sliceRecordCounter, streamRecordCounter, failedSlices,
                 failedStreams, readError, nrec, out>>
  /\ UNCHANGED <<psrVars, httpVars, resVars, unitVars>>

\* read, lines 234-242: the per-stream SUCCESS status
StreamSuccess ==
  /\ dpc = "success"
  /\ out' = Append(out, StatusMsg(connectorState, "RUNNING", CurStream, "SUCCESS",
                                  streamRecordCounter))
  /\ si' = si + 1
  /\ dpc' = "stream"
  /\ UNCHANGED <<hooks, catalog, deps, backfill, maxSliceFailures, maxStreamFailures, checkpointInterval,
                 sliced, state0, connectorState, streamState, sliceNo,
                 sliceRecordCounter, streamRecordCounter, failedSlices,
                 failedStreams, pendingError, readError, nrec>>
  /\ UNCHANGED <<psrVars, httpVars, resVars, unitVars>>

\* read, lines 243-283: catch of a stream's error
StreamFailure ==
  /\ dpc = "caught"
  /\ out' = Append(out, StatusMsg(connectorState, "ERRORED", CurStream, "ERROR",
                                  streamRecordCounter))
  /\ IF maxStreamFailures = {}
       THEN /\ readError' = pendingError
            /\ dpc' = "failed"
            /\ UNCHANGED <<failedStreams, si>>
       ELSE LET fs == Append(failedStreams, CurStream)
            IN /\ failedStreams' = fs
               /\ UNCHANGED readError
               /\ IF StreamFailuresExceeded(Len(fs))
                    THEN dpc' = "end" /\ UNCHANGED si
                    ELSE dpc' = "stream" /\ si' = si + 1
  /\ UNCHANGED <<hooks, catalog, deps, backfill, maxSliceFailures, maxStreamFailures, checkpointInterval,
                 sliced, state0, connectorState, streamState, sliceNo,
                 sliceRecordCounter, streamRecordCounter, failedSlices,
                 pendingError, nrec>>
  /\ UNCHANGED <<psrVars, httpVars, resVars, unitVars>>

\* read, lines 286-298: after the stream loop
ReadEnd ==
  /\ \/ dpc = "end"
     \/ dpc = "stream" /\ si > Len(sortedStreams)
  /\ IF AnyStreamFailed
       THEN /\ readError' = ErrorOf("VError", failedStreams)
            /\ dpc' = "failed"
            /\ UNCHANGED out
       ELSE /\ out' = Append(out, StatusMsg(connectorState, "SUCCESS", "", "", 0))
            /\ dpc' = "done"
            /\ UNCHANGED readError
  /\ UNCHANGED <<hooks, catalog, deps, backfill, maxSliceFailures, maxStreamFailures, checkpointInterval,
                 sliced, state0, connectorState, streamState, si, sliceNo,
                 sliceRecordCounter, streamRecordCounter, failedSlices,
                 failedStreams, pendingError, nrec>>
  /\ UNCHANGED <<psrVars, httpVars, resVars, unitVars>>

DriverNext ==
  \/ ReadStart
  \/ StreamBegin
  \/ SliceBegin
  \/ \E t \in Times : ReadRecord(t)
  \/ SliceEnd
  \/ SliceNonFatal
  \/ SliceError
  \/ AfterRead
  \/ StreamSuccess
  \/ StreamFailure
  \/ ReadEnd

\* =========================================================================
\*  Part 2: the spool (FileBufferedProcessor) and the orchestrator
\*          (KlaviyoStream.parallelSequentialRead)
\* =========================================================================

Shards == 1..MaxShards
Ids == {1, 2}                 \* primary-key values
PCursors == 0..MaxShards      \* cursor values of shard records; 0: no cursor value
\* args[i].from: shard i starts at time i
ShardFrom(i) == i
\* subtract(2, 'minute'), in the model's time unit
TwoMinutes == 1
\* readBufferLimit (512 * 1024 bytes), scaled to characters of the model
ReadBufferLimit == 5
\* the producer flushes once its buffer holds 1024 bytes, scaled
FlushThreshold == 3
\* highWaterMark of the write stream (writeBufferLimit, 128 * 1024), scaled
HighWaterMark == 4

NL == <<0, 0>>
\* JSON.stringify(value) + '\n' of the k-th record a shard writes
RECURSIVE Payload(_, _)
Payload(k, n) == IF n = 0 THEN <<>> ELSE Append(Payload(k, n - 1), <<k, n>>)
JsonLine(k) == Append(Payload(k, lineLen), NL)
\* JSON.parse(text): the record index, or 0 for a SyntaxError
JsonParse(text, nwritten) ==
  IF \E k \in 1..nwritten : text = Payload(k, lineLen)
    THEN CHOOSE k \in 1..nwritten : text = Payload(k, lineLen)
    ELSE 0

\* text.split('\n')
RECURSIVE Split(_)
Split(text) ==
  IF \A i \in 1..Len(text) : text[i] # NL THEN <<text>>
  ELSE LET i == CHOOSE j \in 1..Len(text) :
                  text[j] = NL /\ \A m \in 1..(j - 1) : text[m] # NL
       IN <<SubSeq(text, 1, i - 1)>> \o Split(SubSeq(text, i + 1, Len(text)))

RECURSIVE SeqSum(_)
SeqSum(q) == IF q = <<>> THEN 0 ELSE Len(Head(q)) + SeqSum(Tail(q))

Min(a, b) == IF a <= b THEN a ELSE b
Front(q) == SubSeq(q, 1, Len(q) - 1)
Last(q) == q[Len(q)]

\* process, line 190: JSON.parse(lastPartial + line)
FirstLine(partial, line) == partial \o line

\* process, lines 184 and 196: lastPartial = lines.pop()
NextPartialOf(partial, lines) == Last(lines)

\* Mutant: the window test is dropped, every key read is remembered
InDedupWindow_all(shard, cursor) == shard < nShards
\* parallelSequentialRead, lines 296-310: streamDedupe && (!nextStreamCutoff ||
\* !item[cursorField] || moment.utc(item[cursorField]).isAfter(nextStreamCutoff))
InDedupWindow(shard, cursor) ==
  /\ shard < nShards
  /\ \/ cursor = 0
     \/ cursor > ShardFrom(shard + 1) - TwoMinutes

\* Events.readRecords, lines 64-67: the options handed to parallelSequentialRead
\* are {parallel: 20}; options.dedupe is undefined, so dedupe is falsy
EventsDedupe == FALSE

\* parallelSequentialRead, line 313: this.lastIds.has(item[this.primaryKey])
IsDuplicate(ids, id) == id \in ids

\* Mutant: the shards are drained from the back (streams.pop())
ShardAt_pop(i) == nShards + 1 - i
\* parallelSequentialRead, lines 294-295: the i-th streams.shift() is shard i
ShardAt(i) == i

\* Mutant: the wait is on the watcher alone
RaceOutcome_watcherOnly(ww) == "wait"
\* process, lines 202-207: Promise.race([pEvent(watcher, ...), this.writeWorker]):
\* an undefined writeWorker resolves the race at once, a rejected one rejects it
RaceOutcome(ww) ==
  CASE ww = "undefined" -> "read"
    [] ww = "rejected" -> "threw"
    [] OTHER -> "wait"
\* the wait ends when the writer promise settles
WaitsOnWriter == RaceOutcome("rejected") = "threw"

\* the record fields the orchestrator reads: the primary key when dedupe is on
\* (lines 304-313), the cursor when the shard has a successor (lines 296, 304-310)
IdsOf == IF dedupe THEN Ids ELSE {1}
CursorsOf(s) == IF dedupe /\ s < nShards THEN PCursors ELSE {0}

\* controller.abort(): the watcher of a waiting reader closes, which ends its wait
AfterAbort(c) == IF c = "wait" THEN "read" ELSE c

\* Mutant: the gate counts no running wrapper, every queued one is let in
Running_ungated(sl) == 0
\* throat(parallel, ...): number of wrappers that hold a slot
Running(sl) == Cardinality({s \in Shards : sl[s]})

PsrIdle ==
  /\ nShards = 0
  /\ parallel = 0
  /\ dedupe = FALSE
  /\ lineLen = 0
  /\ aborted = FALSE
  /\ ppc = [s \in Shards |-> "none"]
  /\ slot = [s \in Shards |-> FALSE]
  /\ buffer = [s \in Shards |-> <<>>]
  /\ wq = [s \in Shards |-> <<>>]
  /\ file = [s \in Shards |-> <<>>]
  /\ fileExists = [s \in Shards |-> FALSE]
  /\ writeWorker = [s \in Shards |-> "undefined"]
  /\ isDone = [s \in Shards |-> FALSE]
  /\ written = [s \in Shards |-> <<>>]
  /\ firstError = 0
  /\ unhandled = FALSE
  /\ cpc = "idle"
  /\ ci = 0
  /\ pos = 0
  /\ chunkN = 0
  /\ lastPartial = <<>>
  /\ pendingLines = <<>>
  /\ lastIds = {}
  /\ currentIds = {}
  /\ drained = <<>>
  /\ psrError = ""

\* the inputs of one parallelSequentialRead call
PsrInputs(shardCounts, dedupes, lens) ==
  /\ nShards \in shardCounts
  /\ parallel \in 1..nShards
  /\ dedupe \in dedupes
  /\ lineLen \in lens
  /\ aborted = FALSE
  /\ ppc = [s \in Shards |-> "none"]
  /\ slot = [s \in Shards |-> FALSE]
  /\ buffer = [s \in Shards |-> <<>>]
  /\ wq = [s \in Shards |-> <<>>]
  /\ file = [s \in Shards |-> <<>>]
  /\ fileExists = [s \in Shards |-> FALSE]
  /\ writeWorker = [s \in Shards |-> "undefined"]
  /\ isDone = [s \in Shards |-> FALSE]
  /\ written = [s \in Shards |-> <<>>]
  /\ firstError = 0
  /\ unhandled = FALSE
  /\ cpc = "idle"
  /\ ci = 0
  /\ pos = 0
  /\ chunkN = 0
  /\ lastPartial = <<>>
  /\ pendingLines = <<>>
  /\ lastIds = {}
  /\ currentIds = {}
  /\ drained = <<>>
  /\ psrError = ""

CurShard == ShardAt(ci)
\* a 'change' event or the settled writer promise ends the wait of shard s's reader
WakeReader(s) == IF cpc = "wait" /\ CurShard = s THEN "read" ELSE cpc

\* parallelSequentialRead, lines 262-295: the spools are created, the first
\* `parallel` producers are started by throat, the sequential loop begins
PsrCall ==
  /\ cpc = "idle"
  /\ nShards > 0
  /\ ppc' = [s \in Shards |-> IF s > nShards THEN "none"
                              ELSE IF s <= parallel THEN "touch" ELSE "queued"]
  /\ slot' = [s \in Shards |-> s <= nShards /\ s <= parallel]
  /\ ci' = 1
  /\ cpc' = "top"
  /\ UNCHANGED <<psrCfg, buffer, wq, file, written, writeWorker, isDone, firstError,
                 unhandled, pos, chunkN, lastPartial, pendingLines, lastIds,
                 currentIds, drained, psrError, aborted, fileExists>>
  /\ UNCHANGED <<driverVars, httpVars, resVars, unitVars>>

\* throat hands a free slot to the next queued wrapper, lines 278-288 and 99-103
ProducerDequeue(s) ==
  /\ ppc[s] = "queued"
  /\ \A r \in 1..(s - 1) : ppc[r] # "queued"
  /\ Running(slot) < parallel
  /\ IF aborted
       THEN /\ ppc' = [ppc EXCEPT ![s] = "notstarted"]
            /\ UNCHANGED slot
       ELSE /\ ppc' = [ppc EXCEPT ![s] = "touch"]
            /\ slot' = [slot EXCEPT ![s] = TRUE]
  /\ UNCHANGED <<psrCfg, buffer, wq, file, written, writeWorker, isDone, firstError,
                 unhandled, consVars, aborted, cpc, fileExists>>
  /\ UNCHANGED <<driverVars, httpVars, resVars, unitVars>>

\* start, lines 103-127: touchBuffer is done, the writer promise and the write
\* stream are created, the producer loop starts
ProducerTouched(s) ==
  /\ ppc[s] = "touch"
  /\ fileExists' = [fileExists EXCEPT ![s] = TRUE]
  /\ writeWorker' = [writeWorker EXCEPT ![s] = "pending"]
  /\ ppc' = [ppc EXCEPT ![s] = "loop"]
  /\ UNCHANGED <<psrCfg, slot, buffer, wq, file, written, isDone, firstError,
                 unhandled, consVars, aborted, cpc>>
  /\ UNCHANGED <<driverVars, httpVars, resVars, unitVars>>

\* the finally block of the producer, lines 141-146: writer.end(buffer)
EndWriter(s) ==
  /\ wq' = [wq EXCEPT ![s] = IF buffer[s] = <<>> THEN @ ELSE Append(@, buffer[s])]
  /\ buffer' = [buffer EXCEPT ![s] = <<>>]
  /\ ppc' = [ppc EXCEPT ![s] = "ending"]

\* the generator yields a record, lines 129-135 and flush, lines 120-126
GenYield(s, id, c) ==
  /\ ppc[s] = "loop"
  /\ ~aborted
  /\ Len(written[s]) < MaxShardRecords
  /\ id \in IdsOf /\ c \in CursorsOf(s)
  /\ written' = [written EXCEPT ![s] = Append(@, [id |-> id, cursor |-> c])]
  /\ LET buf == buffer[s] \o JsonLine(Len(written[s]) + 1)
         q == Append(wq[s], buf)
     IN IF Len(buf) >= FlushThreshold
          THEN /\ wq' = [wq EXCEPT ![s] = q]
               /\ buffer' = [buffer EXCEPT ![s] = <<>>]
               /\ ppc' = [ppc EXCEPT ![s] =
                            IF SeqSum(q) < HighWaterMark THEN "loop" ELSE "drain"]
          ELSE /\ buffer' = [buffer EXCEPT ![s] = buf]
               /\ UNCHANGED <<wq, ppc>>
  /\ UNCHANGED <<psrCfg, slot, file, writeWorker, isDone, firstError, unhandled,
                 consVars, aborted, cpc, fileExists>>
  /\ UNCHANGED <<driverVars, httpVars, resVars, unitVars>>

\* the generator is exhausted
GenReturn(s) ==
  /\ ppc[s] = "loop"
  /\ EndWriter(s)
  /\ UNCHANGED <<psrCfg, slot, file, written, writeWorker, isDone, firstError,
                 unhandled, consVars, aborted, cpc, fileExists>>
  /\ UNCHANGED <<driverVars, httpVars, resVars, unitVars>>

\* after the abort, the generator's or the producer's throwIfAborted raises the
\* AbortError, which the producer swallows (lines 130, 136-140)
GenAbort(s) ==
  /\ ppc[s] = "loop"
  /\ aborted
  /\ EndWriter(s)
  /\ UNCHANGED <<psrCfg, slot, file, written, writeWorker, isDone, firstError,
                 unhandled, consVars, aborted, cpc, fileExists>>
  /\ UNCHANGED <<driverVars, httpVars, resVars, unitVars>>

\* the generator fails with another error, lines 136-140 and 282-286:
\* controller.abort(), reject(e); the throat wrapper aborts and rethrows, and
\* nothing awaits its promise.  A reader waiting on this writer sees either the
\* rejection or the closing watcher first.
GenThrow(s) ==
  /\ ppc[s] = "loop"
  /\ EndWriter(s)
  /\ aborted' = TRUE
  /\ writeWorker' = [writeWorker EXCEPT ![s] = "rejected"]
  /\ slot' = [slot EXCEPT ![s] = FALSE]
  /\ unhandled' = TRUE
  /\ firstError' = IF firstError = 0 THEN s ELSE firstError
  /\ \/ /\ cpc' = AfterAbort(cpc)
        /\ UNCHANGED psrError
     \/ /\ cpc = "wait" /\ CurShard = s /\ WaitsOnWriter
        /\ cpc' = "threw"
        /\ psrError' = "Error"
  /\ UNCHANGED <<psrCfg, file, written, isDone, ci, pos, chunkN, lastPartial,
                 pendingLines, lastIds, currentIds, drained, fileExists>>
  /\ UNCHANGED <<driverVars, httpVars, resVars, unitVars>>

\* the controller is aborted from outside the stream (runner.ts line 43)
ExternalAbort ==
  /\ ~aborted
  /\ cpc \notin {"idle", "returned", "threw"}
  /\ aborted' = TRUE
  /\ cpc' = AfterAbort(cpc)
  /\ UNCHANGED <<psrCfg, prodVars, consVars, fileExists>>
  /\ UNCHANGED <<driverVars, httpVars, resVars, unitVars>>

\* the write stream writes its oldest queued block to the file; 'drain' follows
\* when the queue is empty, 'change' reaches the watcher unless the abort closed it
FsWrite(s) ==
  /\ wq[s] # <<>>
  /\ file' = [file EXCEPT ![s] = @ \o Head(wq[s])]
  /\ wq' = [wq EXCEPT ![s] = Tail(@)]
  /\ ppc' = [ppc EXCEPT ![s] =
               IF @ = "drain" /\ Tail(wq[s]) = <<>> THEN "loop" ELSE @]
  /\ cpc' = IF aborted THEN cpc ELSE WakeReader(s)
  /\ UNCHANGED <<psrCfg, slot, buffer, written, writeWorker, isDone, firstError,
                 unhandled, consVars, aborted, fileExists>>
  /\ UNCHANGED <<driverVars, httpVars, resVars, unitVars>>

\* 'close' of the write stream, lines 114-118
WriterClose(s) ==
  /\ ppc[s] = "ending"
  /\ wq[s] = <<>>
  /\ writeWorker' = [writeWorker EXCEPT ![s] = "undefined"]
  /\ isDone' = [isDone EXCEPT ![s] = TRUE]
  /\ slot' = [slot EXCEPT ![s] = FALSE]
  /\ ppc' = [ppc EXCEPT ![s] = "closed"]
  /\ cpc' = IF WaitsOnWriter THEN WakeReader(s) ELSE cpc
  /\ UNCHANGED <<psrCfg, buffer, wq, file, written, firstError, unhandled,
                 consVars, aborted, fileExists>>
  /\ UNCHANGED <<driverVars, httpVars, resVars, unitVars>>

\* parallelSequentialRead, lines 296-302 and process, lines 153-160: the next
\* shard is taken; an AbortError leaves the loop and is swallowed (324-329)
ConsumerTop ==
  /\ cpc = "top"
  /\ IF aborted
       THEN /\ cpc' = "returned"
            /\ UNCHANGED <<pos, lastPartial>>
       ELSE /\ cpc' = "opening"
            /\ pos' = 0
            /\ lastPartial' = <<>>
  /\ UNCHANGED <<psrCfg, prodVars, ci, chunkN, pendingLines, lastIds, currentIds,
                 drained, psrError, aborted, fileExists>>
  /\ UNCHANGED <<driverVars, httpVars, resVars, unitVars>>

\* process, lines 160-167: touchBuffer, fs.open, fs.watch
ConsumerOpen ==
  /\ cpc = "opening"
  /\ fileExists' = [fileExists EXCEPT ![CurShard] = TRUE]
  /\ cpc' = "read"
  /\ UNCHANGED <<psrCfg, prodVars, consVars, aborted>>
  /\ UNCHANGED <<driverVars, httpVars, resVars, unitVars>>

\* process, lines 173-177: throwIfAborted, then fd.read is issued and takes what
\* the file holds at that moment; the AbortError ends process() (209-216)
ReadIssue ==
  /\ cpc = "read"
  /\ IF aborted
       THEN /\ cpc' = "cleanup"
            /\ UNCHANGED chunkN
       ELSE /\ cpc' = "reading"
            /\ chunkN' = Min(ReadBufferLimit, Len(file[CurShard]) - pos)
  /\ UNCHANGED <<psrCfg, prodVars, ci, pos, lastPartial, pendingLines, lastIds,
                 currentIds, drained, psrError, aborted, fileExists>>
  /\ UNCHANGED <<driverVars, httpVars, resVars, unitVars>>

\* process, lines 178-207: the read completes.  Bytes are split into lines; with
\* no bytes the loop ends if the writer is done and no partial line is held, and
\* waits for the watcher or the writer otherwise.
ReadResume ==
  /\ cpc = "reading"
  /\ IF chunkN > 0
       THEN LET lines == Split(SubSeq(file[CurShard], pos + 1, pos + chunkN))
                body == Front(lines)
            IN /\ pos' = pos + chunkN
               /\ lastPartial' = NextPartialOf(lastPartial, lines)
               /\ IF body = <<>>
                    THEN /\ cpc' = "read"
                         /\ UNCHANGED pendingLines
                    ELSE /\ cpc' = "lines"
                         /\ pendingLines' =
                              <<FirstLine(lastPartial, Head(body))>> \o Tail(body)
               /\ UNCHANGED <<psrError, aborted>>
       ELSE /\ UNCHANGED <<pos, lastPartial, pendingLines>>
            /\ IF isDone[CurShard] /\ lastPartial = <<>>
                 THEN /\ cpc' = "cleanup"
                      /\ UNCHANGED <<psrError, aborted>>
                 ELSE LET o == RaceOutcome(writeWorker[CurShard])
                      IN /\ cpc' = o
                         /\ psrError' = IF o = "threw" THEN "Error" ELSE psrError
                         /\ aborted' = (aborted \/ o = "threw")
  /\ UNCHANGED <<psrCfg, prodVars, ci, chunkN, lastIds, currentIds, drained,
                 fileExists>>
  /\ UNCHANGED <<driverVars, httpVars, resVars, unitVars>>

\* process, lines 185-195 and parallelSequentialRead, lines 303-317: the next
\* line is parsed and handed to the orchestrator, which remembers its key,
\* skips it if the previous shard had it, and yields it otherwise.  After the
\* abort the AbortError comes from process (line 186: swallowed, cleanup follows)
\* or from the orchestrator (line 303: the loop is left at once).
YieldLine ==
  /\ cpc = "lines"
  /\ IF aborted
       THEN /\ cpc' \in {"cleanup", "returned"}
            /\ pendingLines' = <<>>
            /\ UNCHANGED <<currentIds, drained, psrError, aborted>>
       ELSE LET k == JsonParse(Head(pendingLines), Len(written[CurShard]))
            IN IF k = 0
                 THEN /\ cpc' = "threw"
                      /\ psrError' = "SyntaxError"
                      /\ aborted' = TRUE
                      /\ pendingLines' = <<>>
                      /\ UNCHANGED <<currentIds, drained>>
                 ELSE LET rec == written[CurShard][k]
                          remember == dedupe /\ InDedupWindow(ci, rec.cursor)
                          skip == dedupe /\ IsDuplicate(lastIds, rec.id)
                      IN /\ currentIds' = IF remember THEN currentIds \cup {rec.id}
                                                      ELSE currentIds
                         /\ drained' = Append(drained,
                               [shard |-> CurShard, pass |-> ci, idx |-> k,
                                id |-> rec.id, cursor |-> rec.cursor,
                                skipped |-> skip])
                         /\ pendingLines' = Tail(pendingLines)
                         /\ cpc' = IF Tail(pendingLines) = <<>> THEN "read"
                                                                ELSE "lines"
                         /\ UNCHANGED <<psrError, aborted>>
  /\ UNCHANGED <<psrCfg, prodVars, ci, pos, chunkN, lastPartial, lastIds,
                 fileExists>>
  /\ UNCHANGED <<driverVars, httpVars, resVars, unitVars>>

\* Mutant: the rotation keeps the keys of the shards drained before
ConsumerCleanup_merge ==
  /\ cpc = "cleanup"
  /\ fileExists' = [fileExists EXCEPT ![CurShard] = FALSE]
  /\ lastIds' = lastIds \cup currentIds
  /\ currentIds' = {}
  /\ IF ci = nShards
       THEN /\ cpc' = "returned"
            /\ UNCHANGED ci
       ELSE /\ cpc' = "top"
            /\ ci' = ci + 1
  /\ UNCHANGED <<psrCfg, prodVars, pos, chunkN, lastPartial, pendingLines,
                 drained, psrError, aborted>>
  /\ UNCHANGED <<driverVars, httpVars, resVars, unitVars>>
\* parallelSequentialRead, lines 319-323: cleanup() removes the spool file, the
\* key sets rotate, the loop goes to the next shard or ends
ConsumerCleanup ==
  /\ cpc = "cleanup"
  /\ fileExists' = [fileExists EXCEPT ![CurShard] = FALSE]
  /\ lastIds' = currentIds
  /\ currentIds' = {}
  /\ IF ci = nShards
       THEN /\ cpc' = "returned"
            /\ UNCHANGED ci
       ELSE /\ cpc' = "top"
            /\ ci' = ci + 1
  /\ UNCHANGED <<psrCfg, prodVars, pos, chunkN, lastPartial, pendingLines,
                 drained, psrError, aborted>>
  /\ UNCHANGED <<driverVars, httpVars, resVars, unitVars>>

\* =========================================================================
\*  Part 3: the Klaviyo client: limiter, retry, and the call sites' abort checks
\* =========================================================================

Calls == 1..MaxCalls
\* "page": fetchAll's page request; "guarded": a fan-out request whose callback
\* calls throwIfAborted (flows.ts 66-73); "fanout": a fan-out request whose
\* callback does not (flows.ts 82-85, 92-104)
Kinds == {"page", "guarded", "fanout"}
\* maxConcurrent: 20, scaled
MaxConcurrent == 2
\* reservoir: value.steady, scaled
Steady == 2
\* reservoirRefreshInterval: 60 * 1000, in the model's time unit
RefreshInterval == 4
\* minTime: (1000 / value.burst) * 1.25, in the model's time unit; as in the
\* endpoint table, Steady dispatches fit several times in a refresh interval
MinTime == 1
\* numOfAttempts: 100, scaled
NumOfAttempts == 2
\* HTTP outcomes: success, a client error that is not retried, another failure
Statuses == {200, 400, 429}

\* the callback handed to the limiter begins with signal.throwIfAborted()
CallbackChecksAbort(k) == k = "guarded"
\* the call site checks the signal right before it hands the call to withLimiter
\* (flows.ts line 65); fetchAll and the nested fan-out do not
SiteChecksAbort(k) == k = "guarded"
\* Mutant: every failure is retried
RetryPredicate_always(status) == TRUE
\* withRetry, lines 76-78: retry(e) is e.response?.status !== 400
RetryPredicate(status) == status # 400

HttpIdle ==
  /\ kind = [c \in Calls |-> "page"]
  /\ jst = [c \in Calls |-> "idle"]
  /\ attempts = [c \in Calls |-> 0]
  /\ running = 0
  /\ reservoir = 0
  /\ now = 0
  /\ nextRequest = 0
  /\ lastRefresh = 0
  /\ httpLog = <<>>

\* Mutant: the limiter has no minTime
SpacingOk_none == TRUE
\* minTime: a job is not run before nextRequest
SpacingOk == now >= nextRequest
\* Mutant: the limiter has no maxConcurrent
ConcurrencyOk_none == TRUE
\* maxConcurrent: 20
ConcurrencyOk == running < MaxConcurrent

\* a failed attempt: backOff retries if the predicate allows and attempts remain
AfterFailure(c, retriable) ==
  IF retriable /\ attempts[c] + 1 < NumOfAttempts THEN "backoff" ELSE "failed"

\* withLimiter / fetchAll: withRetry's first attempt hands the job to the limiter
Schedule(c) ==
  /\ jst[c] = "new"
  /\ SiteChecksAbort(kind[c]) => ~aborted
  /\ jst' = [jst EXCEPT ![c] = "queued"]
  /\ UNCHANGED <<kind, attempts, running, reservoir, now, nextRequest, lastRefresh,
                 httpLog, aborted>>
  /\ UNCHANGED <<driverVars, psrOwn, resVars, unitVars>>

\* the limiter runs the job: the callback either throws the AbortError or sends
\* the HTTP request
Dispatch(c) ==
  /\ jst[c] = "queued"
  /\ ConcurrencyOk
  /\ reservoir > 0
  /\ SpacingOk
  /\ reservoir' = reservoir - 1
  /\ nextRequest' = now + MinTime
  /\ IF CallbackChecksAbort(kind[c]) /\ aborted
       THEN /\ jst' = [jst EXCEPT ![c] = AfterFailure(c, RetryPredicate(0))]
            /\ attempts' = [attempts EXCEPT ![c] = @ + 1]
            /\ UNCHANGED <<running, httpLog>>
       ELSE /\ jst' = [jst EXCEPT ![c] = "inflight"]
            /\ running' = running + 1
            /\ httpLog' = Append(httpLog,
                              [call |-> c, at |-> now, afterAbort |-> aborted])
            /\ UNCHANGED attempts
  /\ UNCHANGED <<kind, now, lastRefresh, aborted>>
  /\ UNCHANGED <<driverVars, psrOwn, resVars, unitVars>>

\* the HTTP response arrives
Respond(c, status) ==
  /\ jst[c] = "inflight"
  /\ running' = running - 1
  /\ attempts' = [attempts EXCEPT ![c] = @ + 1]
  /\ jst' = [jst EXCEPT ![c] =
               IF status = 200 THEN "done" ELSE AfterFailure(c, RetryPredicate(status))]
  /\ UNCHANGED <<kind, reservoir, now, nextRequest, lastRefresh, httpLog, aborted>>
  /\ UNCHANGED <<driverVars, psrOwn, resVars, unitVars>>

\* backOff's delay is over: the next attempt hands the job to the limiter again
RetryDelayOver(c) ==
  /\ jst[c] = "backoff"
  /\ jst' = [jst EXCEPT ![c] = "queued"]
  /\ UNCHANGED <<kind, attempts, running, reservoir, now, nextRequest, lastRefresh,
                 httpLog, aborted>>
  /\ UNCHANGED <<driverVars, psrOwn, resVars, unitVars>>

\* reservoirRefreshInterval, reservoirRefreshAmount: once the interval has
\* passed since the last refresh the reservoir is set to its full amount
RefreshDue == now - lastRefresh >= RefreshInterval
ReservoirRefresh ==
  /\ RefreshDue
  /\ reservoir' = Steady
  /\ lastRefresh' = now
  /\ UNCHANGED <<kind, jst, attempts, running, now, nextRequest, httpLog, aborted>>
  /\ UNCHANGED <<driverVars, psrOwn, resVars, unitVars>>

\* time passes; a due refresh is not delayed
Tick ==
  /\ now < MaxNow
  /\ ~RefreshDue
  /\ now' = now + 1
  /\ UNCHANGED <<kind, jst, attempts, running, reservoir, nextRequest, lastRefresh,
                 httpLog, aborted>>
  /\ UNCHANGED <<driverVars, psrOwn, resVars, unitVars>>

\* stream.controller.abort()
HttpAbort ==
  /\ ~aborted
  /\ aborted' = TRUE
  /\ UNCHANGED httpVars
  /\ UNCHANGED <<driverVars, psrOwn, resVars, unitVars>>

\* =========================================================================
\*  Part 4: a Klaviyo stream read twice, the second time from a STATE of the
\*          first (Events.readRecords, Campaigns.readRecords, doReadStream)
\* =========================================================================

SourceIds == 1..MaxSource
StreamKinds == {"events", "campaigns"}
Channels == <<"email", "sms">>
\* moment.utc() when the ranges are built: later than every record
NowTime == MaxCursor + 1
\* step: moment.duration(1, 'hour'), in the model's time unit
Step == 6
\* stepOverlap: moment.duration(5, 'second'), scaled
StepOverlap == 1
\* startOverlap: moment.duration(1, 'minute'), scaled
StartOverlap == 3
\* Campaigns: subtract(moment.duration(1, 'hour')), scaled
CampaignRewind == 1
\* Events.stateCheckpointInterval: 100000, scaled
EventsCheckpointInterval == 2
\* new Date('2000-01-01'): before every record
Epoch2000 == 0

\* streamInstance.stateCheckpointInterval; Campaigns does not define one
stateCheckpointInterval ==
  IF streamKind = "events" THEN EventsCheckpointInterval ELSE 0

\* the ids of S in the order of the API's sort parameter (cursor, then id)
RECURSIVE SortByCursor(_)
SortByCursor(S) ==
  IF S = {} THEN <<>>
  ELSE LET first == CHOOSE x \in S : \A y \in S :
                      \/ source[x].cursor < source[y].cursor
                      \/ source[x].cursor = source[y].cursor /\ x <= y
       IN <<first>> \o SortByCursor(S \ {first})

\* Events.readRecords, lines 47-55: streamState?.cutoff ?? 0, replaced by the
\* datetime of the first event when it is 0
EventsLastCutoff(st) ==
  IF st.has /\ st.cutoff # 0 THEN st.cutoff
  ELSE LET first == SortByCursor(SourceIds)[1] IN source[first].cursor

\* Mutant: the ranges are not widened
RangeFrom_noOverlap(from, k) == from + k * Step
\* momentRanges: the k-th range starts at from + k * step, less the overlap
RangeFrom(from, k) ==
  from + k * Step - (IF k = 0 THEN StartOverlap ELSE StepOverlap)
RangeTo(from, k) == from + (k + 1) * Step + StepOverlap
\* momentRanges: for (d = from; d.isBefore(to); ): the indices of the ranges
RangeIndices(from) == {k \in 0..NowTime : from + k * Step < NowTime}

\* getEvents with and(greater-than(datetime, from), less-than(datetime, to))
EventsInRange(from, k) ==
  {x \in SourceIds : /\ source[x].cursor > RangeFrom(from, k)
                     /\ source[x].cursor < RangeTo(from, k)}
\* shouldEmit: a key the previous shard returned is not emitted again
shouldEmit(from, k, x) == k = 0 \/ x \notin EventsInRange(from, k - 1)
\* the records shard k hands to parallelSequentialRead, in order
ShardRecords(from, k) ==
  SelectSeq(SortByCursor(EventsInRange(from, k)), LAMBDA x : shouldEmit(from, k, x))
RECURSIVE ShardsFrom(_, _)
ShardsFrom(from, k) ==
  IF k \notin RangeIndices(from) THEN <<>>
  ELSE ShardRecords(from, k) \o ShardsFrom(from, k + 1)
\* Events.readRecords, lines 56-97: the shards are drained in order
EventsReadRecords(st) == ShardsFrom(EventsLastCutoff(st), 0)

\* Campaigns.readRecords, lines 46-56
CampaignsLastCutoff(st) ==
  (IF st.has /\ st.cutoff # 0 THEN st.cutoff ELSE Epoch2000) - CampaignRewind
\* getCampaigns with equals(messages.channel, ch) and
\* greater-or-equal(updated_at, lastCutoff), sorted by updated_at
CampaignsOf(ch, st) ==
  SortByCursor({x \in SourceIds : /\ source[x].channel = ch
                                  /\ source[x].cursor >= CampaignsLastCutoff(st)})
\* Campaigns.readRecords, lines 57-67: for (const channel of ['email', 'sms'])
CampaignsReadRecords(st) ==
  CampaignsOf(Channels[1], st) \o CampaignsOf(Channels[2], st)

\* streamInstance.readRecords(syncMode, cursor_field, slice, streamState)
readRecords(st) ==
  IF streamKind = "events" THEN EventsReadRecords(st) ELSE CampaignsReadRecords(st)

ResumeIdle ==
  /\ streamKind = ""
  /\ source = <<>>
  /\ run = 0
  /\ rpc = "idle"
  /\ records = <<>>
  /\ rStreamState = Absent
  /\ rCheckpoint = Absent
  /\ rCounter = 0
  /\ emitted = {}
  /\ acked = {}

\* the source data: every record has a cursor value; campaigns have a channel
Sources(k) ==
  IF k = "events"
    THEN [SourceIds -> [cursor : 1..MaxCursor, channel : {""}]]
    ELSE [SourceIds -> [cursor : 1..MaxCampaignCursor, channel : {"email", "sms"}]]

\* the first run starts without a state: connectorState[streamName] ?? {}
ResumeInputs ==
  /\ streamKind \in StreamKinds
  /\ source \in Sources(streamKind)
  /\ run = 1
  /\ rpc = "reading"
  /\ rStreamState = EmptyState
  /\ rCheckpoint = Absent
  /\ records = readRecords(EmptyState)
  /\ rCounter = 0
  /\ emitted = {}
  /\ acked = {}

\* the record loop of doReadStream, lines 388-409
ResumeRecord ==
  /\ rpc = "reading"
  /\ records # <<>>
  /\ LET x == Head(records)
         st == getUpdatedState(rStreamState, source[x].cursor)
         cp == /\ stateCheckpointInterval # 0
               /\ (rCounter + 1) % stateCheckpointInterval = 0
     IN /\ rStreamState' = st
        /\ emitted' = emitted \cup {x}
        /\ rCheckpoint' = IF cp THEN st ELSE rCheckpoint
        /\ acked' = IF cp /\ run = 1 THEN emitted \cup {x} ELSE acked
  /\ records' = Tail(records)
  /\ rCounter' = rCounter + 1
  /\ UNCHANGED <<streamKind, source, run, rpc>>
  /\ UNCHANGED <<driverVars, psrVars, httpVars, unitVars>>

\* the records are exhausted: the checkpoint at the end of the slice, 410-412
ResumeSliceEnd ==
  /\ rpc = "reading"
  /\ records = <<>>
  /\ rCheckpoint' = rStreamState
  /\ acked' = IF run = 1 THEN emitted ELSE acked
  /\ rpc' = "done"
  /\ UNCHANGED <<streamKind, source, run, records, rStreamState, rCounter, emitted>>
  /\ UNCHANGED <<driverVars, psrVars, httpVars, unitVars>>

\* readRecords throws: without a slice the error leaves doReadStream (438-440)
\* and read's status message carries the last checkpointed state (250-267)
ResumeFailure ==
  /\ rpc = "reading"
  /\ rpc' = "failed"
  /\ UNCHANGED <<streamKind, source, run, records, rStreamState, rCheckpoint,
                 rCounter, emitted, acked>>
  /\ UNCHANGED <<driverVars, psrVars, httpVars, unitVars>>

\* the first run is over or is stopped, and the stream is read again from the
\* last STATE the first run emitted
Rerun ==
  /\ run = 1
  /\ run' = 2
  /\ rpc' = "reading"
  /\ rStreamState' = InitialStreamState([s \in Streams |-> rCheckpoint], "A")
  /\ records' = readRecords(InitialStreamState([s \in Streams |-> rCheckpoint], "A"))
  /\ rCounter' = 0
  /\ emitted' = {}
  /\ UNCHANGED <<streamKind, source, rCheckpoint, acked>>
  /\ UNCHANGED <<driverVars, psrVars, httpVars, unitVars>>

ResumeNext ==
  \/ ResumeRecord
  \/ ResumeSliceEnd
  \/ ResumeFailure
  \/ Rerun

\* =========================================================================
\*  Specifications
\* =========================================================================
\* Part 5: AirbyteStateManager and getUpdatedState, called on their own
\* =========================================================================

\* the bounds of Part 5
MaxObjects == 6          \* objects the manager's callers and the manager share
MaxBlob == 2             \* contents of a state blob: 0 is {}, n is {cutoff: n}
MaxWall == 4             \* wall-clock readings of a record's cursor string

SmStreams == {"A", "B"}
ObjIds == 1..MaxObjects
BlobVals == 0..MaxBlob

\* a JSON object on the heap: a state blob, or an entry of global.stream_states
\* ({stream_descriptor: {name}, stream_state: blob})
Blob(n) == [kind |-> "blob", name |-> "", cutoff |-> n]
Entry(s, n) == [kind |-> "entry", name |-> s, cutoff |-> n]

\* the input state sequence: no message at all, per-stream messages or one
\* GLOBAL message; states[s] = -1: no message (or no entry) for stream s
StateInputs ==
  [type : {"NONE", "STREAM", "GLOBAL"}, shared : 0..1, states : [SmStreams -> -1..1]]
InputKeys(inp) == {s \in SmStreams : inp.states[s] >= 0}
\* the objects of the input: 1 is shared_state, 2 and 3 belong to A and to B
InputId(s) == IF s = "A" THEN 2 ELSE 3

\* protocol type guards: the message's type is GLOBAL / STREAM
isAirbyteGlobalStateMessageV2(inp) == inp.type = "GLOBAL"
isAirbyteStreamStateMessageV2(inp) == inp.type = "STREAM"

\* constructor, line 802: state?.[0]?.type ?? 'STREAM'
ManagerType(inp) == IF inp.type = "GLOBAL" THEN "GLOBAL" ELSE "STREAM"
\* constructor, lines 803-819: what this.streams[key] refers to; 0 is no key
ManagerStreams(inp) ==
  [s \in SmStreams |->
     IF inp.type \in {"GLOBAL", "STREAM"} /\ s \in InputKeys(inp) THEN InputId(s) ELSE 0]
\* constructor, lines 805-808: a GLOBAL input stores the whole entry of
\* stream_states (streamState || {}); lines 813-817: a STREAM input stores
\* stream.stream_state
ManagerHeap(inp) ==
  [i \in ObjIds |->
     IF i = 1 THEN Blob(inp.shared)
     ELSE IF i \in {2, 3}
       THEN LET s == IF i = 2 THEN "A" ELSE "B"
            IN IF s \notin InputKeys(inp) THEN Blob(0)
               ELSE IF isAirbyteGlobalStateMessageV2(inp) THEN Entry(s, inp.states[s])
               ELSE Blob(inp.states[s])
       ELSE Blob(0)]

\* the object a reference points at; reference 0 is a fresh {} (x || {})
Deref(r) == IF r = 0 THEN Blob(0) ELSE heap[r]

\* getStateForStream, lines 845-854: a JSON copy of {stream, global}
getStateForStream(s) ==
  [stream |-> Deref(smStreams[s]),
   global |-> IF smType = "GLOBAL" THEN Deref(smGlobal) ELSE Blob(0)]

\* getAirbyteMessageEnvelope, lines 857-885: the GLOBAL envelope lists every key
\* of this.streams, the STREAM envelope the one stream asked for
NoEnvelope == [type |-> "NONE", name |-> "", shared |-> Blob(0), states |-> <<>>]
getAirbyteMessageEnvelope(s) ==
  IF smType = "GLOBAL"
    THEN [type |-> "GLOBAL", name |-> "", shared |-> Deref(smGlobal),
          states |-> [k \in {x \in SmStreams : smStreams[x] # 0} |-> Deref(smStreams[k])]]
    ELSE [type |-> "STREAM", name |-> s, shared |-> Blob(0),
          states |-> [k \in {s} |-> Deref(smStreams[s])]]

\* setStateForStream, lines 835-843: this.streams[key] = state.stream (the
\* caller's object, stored as it is); a GLOBAL manager also takes state.global;
\* o and g are the caller's two objects
SetStateForStream(s, v, gv) ==
  LET o == smAlloc + 1
      g == smAlloc + 2
  IN /\ smType # ""
     /\ smAlloc + 2 <= MaxObjects
     /\ smAlloc' = smAlloc + 2
     /\ heap' = [heap EXCEPT ![o] = Blob(v), ![g] = Blob(gv)]
     /\ smStreams' = [smStreams EXCEPT ![s] = o]
     /\ smGlobal' = IF smType = "GLOBAL" THEN g ELSE smGlobal
     /\ smHeld' = smHeld \cup {o, g}
     /\ smWritten' = TRUE
     /\ UNCHANGED <<smType, smInput, smEnvelope>>
     /\ UNCHANGED <<driverVars, psrVars, httpVars, resVars, guVars, extVars>>

\* getStateForStream called: the caller receives a new object (the copy)
GetStateForStream(s) ==
  LET o == smAlloc + 1
  IN /\ smType # ""
     /\ smAlloc + 1 <= MaxObjects
     /\ smAlloc' = smAlloc + 1
     /\ heap' = [heap EXCEPT ![o] = getStateForStream(s).stream]
     /\ smHeld' = smHeld \cup {o}
     /\ UNCHANGED <<smType, smInput, smStreams, smGlobal, smWritten, smEnvelope>>
     /\ UNCHANGED <<driverVars, psrVars, httpVars, resVars, guVars, extVars>>

\* the caller changes an object it passed to setStateForStream or received
\* from getStateForStream
Mutate(o, v) ==
  /\ o \in smHeld
  /\ heap[o].cutoff # v
  /\ heap' = [heap EXCEPT ![o].cutoff = v]
  /\ UNCHANGED <<smType, smInput, smStreams, smGlobal, smAlloc, smHeld, smWritten, smEnvelope>>
  /\ UNCHANGED <<driverVars, psrVars, httpVars, resVars, guVars, extVars>>

\* getAirbyteMessageEnvelope called
GetAirbyteMessageEnvelope(s) ==
  /\ smType # ""
  /\ smEnvelope' = getAirbyteMessageEnvelope(s)
  /\ smEnvelope' # smEnvelope
  /\ UNCHANGED <<smType, smInput, smStreams, smGlobal, heap, smAlloc, smHeld, smWritten>>
  /\ UNCHANGED <<driverVars, psrVars, httpVars, resVars, guVars, extVars>>

ManagerIdle ==
  /\ smInput = [type |-> "NONE", shared |-> 0, states |-> [s \in SmStreams |-> -1]]
  /\ smType = ""
  /\ smStreams = [s \in SmStreams |-> 0]
  /\ smGlobal = 0
  /\ heap = [i \in ObjIds |-> Blob(0)]
  /\ smAlloc = 0
  /\ smHeld = {}
  /\ smWritten = FALSE
  /\ smEnvelope = NoEnvelope

\* new AirbyteStateManager(state), lines 800-825
ManagerInputs ==
  /\ smInput \in {inp \in StateInputs :
                    /\ inp.type # "GLOBAL" => inp.shared = 0
                    /\ inp.type = "NONE" => InputKeys(inp) = {}}
  /\ smType = ManagerType(smInput)
  /\ smStreams = ManagerStreams(smInput)
  /\ smGlobal = IF isAirbyteGlobalStateMessageV2(smInput) THEN 1 ELSE 0
  /\ heap = ManagerHeap(smInput)
  /\ smAlloc = 3
  /\ smHeld = {}
  /\ smWritten = FALSE
  /\ smEnvelope = NoEnvelope

ManagerNext ==
  \/ \E s \in SmStreams, v \in 1..MaxBlob, gv \in 0..1 : SetStateForStream(s, v, gv)
  \/ \E s \in SmStreams : GetStateForStream(s)
  \/ \E o \in ObjIds, v \in BlobVals : Mutate(o, v)
  \/ \E s \in SmStreams : GetAirbyteMessageEnvelope(s)

\* ---- getUpdatedState ----

\* a record's cursor string: a wall-clock reading and a UTC offset
Zones == {"Z", "+01:00"}
CursorStrings == [wall : 1..MaxWall, zone : Zones]
ZoneOffset(z) == IF z = "Z" THEN 0 ELSE 1
\* moment.utc(s).toDate().getTime() and new Date(s).getTime()
EpochMs(c) == c.wall - ZoneOffset(c.zone)

NotCalled == [called |-> FALSE, threw |-> FALSE, state |-> Absent]
Returned(st) == [called |-> TRUE, threw |-> FALSE, state |-> st]
TypeError == [called |-> TRUE, threw |-> TRUE, state |-> Absent]

\* Profiles.getUpdatedState of profiles.ts: currentStreamState.cutoff ?? 0 reads
\* a property of the argument, which throws when the argument is undefined
ProfilesGetUpdatedState(cur, rec) ==
  IF ~cur.present THEN TypeError
  ELSE Returned(Cutoff(Max(IF cur.has THEN cur.cutoff ELSE 0, EpochMs(rec))))
\* Events.getUpdatedState: currentStreamState?.cutoff ?? 0
EventsGetUpdatedState(cur, rec) == Returned(getUpdatedState(cur, EpochMs(rec)))

UpdateIdle ==
  /\ guStream = ""
  /\ guCurrent = Absent
  /\ guRecord = [wall |-> 1, zone |-> "Z"]
  /\ guResult = NotCalled

\* the stream, the current state (undefined, {} or {cutoff}) and the record
UpdateInputs ==
  /\ guStream \in {"events", "profiles"}
  /\ guCurrent \in StreamStates
  /\ guRecord \in CursorStrings
  /\ guResult = NotCalled

GetUpdatedStateCall ==
  /\ guStream # ""
  /\ ~guResult.called
  /\ guResult' = IF guStream = "events" THEN EventsGetUpdatedState(guCurrent, guRecord)
                 ELSE ProfilesGetUpdatedState(guCurrent, guRecord)
  /\ UNCHANGED <<guStream, guCurrent, guRecord>>
  /\ UNCHANGED <<driverVars, psrVars, httpVars, resVars, smVars, extVars>>

\* =========================================================================
\* Part 6: the V2 read path (AirbyteSourceBaseV2.doReadStreamV2), one stream
\* =========================================================================

MaxV2Records == 2        \* records one V2 stream run reads

\* the input state of a V2 run: per-stream or GLOBAL messages, with a cutoff of
\* an earlier sync or none
V2StateInputs ==
  {inp \in [type : {"NONE", "STREAM", "GLOBAL"}, shared : {0},
            states : [SmStreams -> -1..MaxBlob]] :
     /\ inp.type = "NONE" => InputKeys(inp) = {}
     /\ inp.states["B"] \in {-1, 1}}

\* what x?.cutoff ?? 0 reads from an object: the object's own cutoff property;
\* the combined state {stream, global} has no such property
CutoffProperty(obj) ==
  IF "cutoff" \in DOMAIN obj /\ obj.cutoff # 0 THEN Cutoff(obj.cutoff) ELSE EmptyState

V2Record(t) == [kind |-> "RECORD", cursor |-> t, env |-> NoEnvelope]
V2State(e) == [kind |-> "STATE", cursor |-> 0, env |-> e]

\* doReadStreamV2, lines 697-719: the initial state is read from the manager and
\* yielded as an envelope; onBeforeRead
V2Begin ==
  /\ v2pc = "begin"
  /\ v2State' = getStateForStream(v2Name)
  /\ v2Out' = <<V2State(getAirbyteMessageEnvelope(v2Name))>>
  /\ v2Count' = 0
  /\ v2Hooks' = [v2Hooks EXCEPT !.before = @ + 1]
  /\ v2pc' = "records"
  /\ UNCHANGED <<v2Name, v2Interval, smVars>>
  /\ UNCHANGED v2Frame

\* doReadStreamV2, lines 737-758: one iteration of the record loop: the RECORD,
\* setStateForStream with getUpdatedState(streamState, recordData, slice), where
\* streamState is the combined {stream, global} state, and the checkpoint
V2ReadRecord(t) ==
  LET o == smAlloc + 1
      st == getUpdatedState(CutoffProperty(v2State), t)
      cp == v2Interval # 0 /\ (v2Count + 1) % v2Interval = 0
  IN /\ v2pc = "records"
     /\ v2Count < MaxV2Records
     /\ smAlloc + 1 <= MaxObjects
     /\ smAlloc' = o
     /\ heap' = [heap EXCEPT ![o] = Blob(st.cutoff)]
     /\ smStreams' = [smStreams EXCEPT ![v2Name] = o]
     /\ smWritten' = TRUE
     /\ UNCHANGED <<smInput, smType, smGlobal, smHeld, smEnvelope>>
     /\ UNCHANGED <<v2pc, v2Name, v2Interval, v2Hooks>>
     /\ v2State' = getStateForStream(v2Name)'
     /\ v2Count' = v2Count + 1
     /\ v2Out' = v2Out \o <<V2Record(t)>> \o
                 (IF cp THEN <<V2State(getAirbyteMessageEnvelope(v2Name)')>> ELSE <<>>)
     /\ UNCHANGED v2Frame

\* doReadStreamV2, line 759: the records are exhausted, the envelope is yielded;
\* the default slice is the only one (an object slice throws, line 722)
V2SliceEnd ==
  /\ v2pc = "records"
  /\ v2Out' = Append(v2Out, V2State(getAirbyteMessageEnvelope(v2Name)))
  /\ v2pc' = "after"
  /\ UNCHANGED <<v2Name, v2Interval, v2State, v2Count, v2Hooks, smVars>>
  /\ UNCHANGED v2Frame

\* doReadStreamV2, lines 767-770: readRecords throws; the slice is undefined, so
\* the error is thrown on and leaves the generator
V2Throw ==
  /\ v2pc = "records"
  /\ v2pc' = "failed"
  /\ UNCHANGED <<v2Name, v2Interval, v2State, v2Count, v2Out, v2Hooks, smVars>>
  /\ UNCHANGED v2Frame

\* doReadStreamV2, lines 783-790: onAfterRead; failedSlices is empty
V2AfterRead ==
  /\ v2pc = "after"
  /\ v2Hooks' = [v2Hooks EXCEPT !.after = @ + 1]
  /\ v2pc' = "done"
  /\ UNCHANGED <<v2Name, v2Interval, v2State, v2Count, v2Out, smVars>>
  /\ UNCHANGED v2Frame

V2Idle ==
  /\ v2pc = "idle"
  /\ v2Name = ""
  /\ v2Interval = 0
  /\ v2State = [stream |-> Blob(0), global |-> Blob(0)]
  /\ v2Count = 0
  /\ v2Out = <<>>
  /\ v2Hooks = [before |-> 0, after |-> 0]

\* read, lines 600-611: new AirbyteStateManager(state), then the stream is read
V2Inputs ==
  /\ smInput \in V2StateInputs
  /\ smType = ManagerType(smInput)
  /\ smStreams = ManagerStreams(smInput)
  /\ smGlobal = IF isAirbyteGlobalStateMessageV2(smInput) THEN 1 ELSE 0
  /\ heap = ManagerHeap(smInput)
  /\ smAlloc = 3
  /\ smHeld = {}
  /\ smWritten = FALSE
  /\ smEnvelope = NoEnvelope
  /\ v2pc = "begin"
  /\ v2Name \in SmStreams
  /\ v2Interval \in Intervals
  /\ v2State = [stream |-> Blob(0), global |-> Blob(0)]
  /\ v2Count = 0
  /\ v2Out = <<>>
  /\ v2Hooks = [before |-> 0, after |-> 0]

V2Next ==
  \/ V2Begin
  \/ \E t \in 1..MaxBlob : V2ReadRecord(t)
  \/ V2SliceEnd
  \/ V2Throw
  \/ V2AfterRead

\* =========================================================================
\*  Part 7: momentRanges, the shards of a time range
\* =========================================================================

MaxFrom == 3
MaxTo == 5
MaxStep == 2
MaxOverlap == 2
\* an option that is left out
Undefined == -1
\* moment.utc() at the call
MrNow == MaxTo

MrOptions ==
  [from : 0..MaxFrom, to : {Undefined} \cup 0..MaxTo, step : 1..MaxStep,
   stepOverlap : {Undefined} \cup 0..MaxOverlap,
   startOverlap : {Undefined} \cup 0..MaxOverlap]

\* the destructuring defaults, lines 41-47
MrTo(o) == IF o.to = Undefined THEN MrNow ELSE o.to
MrStepOverlap(o) == IF o.stepOverlap = Undefined THEN 0 ELSE o.stepOverlap
MrStartOverlap(o) == IF o.startOverlap = Undefined THEN 0 ELSE o.startOverlap

\* Mutant: the first shard is widened like the others
PushedRange_sameOverlap(o, a, b, isFirst) ==
  [from |-> a - MrStepOverlap(o), to |-> b + MrStepOverlap(o)]
\* lines 53-56: {from: isFirst ? a.subtract(startOverlap) : a.subtract(stepOverlap),
\* to: b.add(stepOverlap)}
PushedRange(o, a, b, isFirst) ==
  [from |-> IF isFirst THEN a - MrStartOverlap(o) ELSE a - MrStepOverlap(o),
   to |-> b + MrStepOverlap(o)]

\* lines 48-50: ranges = [], isFirst = true, d = moment.utc(from.clone())
MomentRangesCall ==
  /\ mrpc = "call"
  /\ mrD' = mrIn.from
  /\ mrIsFirst' = TRUE
  /\ mrRanges' = <<>>
  /\ mrpc' = "loop"
  /\ UNCHANGED mrIn
  /\ UNCHANGED <<auxFrame, faVars, wrVars>>

\* lines 50-58: one pass of the loop while d.isBefore(to); d.add(step) moves d
MomentRangesLoop ==
  /\ mrpc = "loop"
  /\ mrD < MrTo(mrIn)
  /\ LET a == mrD
         b == mrD + mrIn.step
     IN /\ mrD' = b
        /\ mrRanges' = Append(mrRanges, PushedRange(mrIn, a, b, mrIsFirst))
  /\ mrIsFirst' = FALSE
  /\ UNCHANGED <<mrIn, mrpc>>
  /\ UNCHANGED <<auxFrame, faVars, wrVars>>

\* lines 50 and 59: d is not before to, return ranges
MomentRangesReturn ==
  /\ mrpc = "loop"
  /\ ~(mrD < MrTo(mrIn))
  /\ mrpc' = "returned"
  /\ UNCHANGED <<mrIn, mrD, mrIsFirst, mrRanges>>
  /\ UNCHANGED <<auxFrame, faVars, wrVars>>

MrIdle ==
  /\ mrIn = [from |-> 0, to |-> 0, step |-> 1, stepOverlap |-> 0, startOverlap |-> 0]
  /\ mrD = 0
  /\ mrIsFirst = TRUE
  /\ mrRanges = <<>>
  /\ mrpc = "idle"

MrInputs ==
  /\ mrIn \in MrOptions
  /\ mrD = 0
  /\ mrIsFirst = TRUE
  /\ mrRanges = <<>>
  /\ mrpc = "call"

MrNext ==
  \/ MomentRangesCall
  \/ MomentRangesLoop
  \/ MomentRangesReturn

\* =========================================================================
\*  Part 8: Klaviyo.fetchAll, the pages of a collection
\* =========================================================================

\* page cursors the endpoint hands out; 0 stands for undefined (the first call)
MaxPageCursor == 2
\* fetches of one fetchAll call the model follows
MaxFetches == 3
\* length of a page's data array
MaxPageSize == 1
PageCursors == 0..MaxPageCursor
\* the page[cursor] parameter of links.next: absent, the empty string, a cursor
NoParam == -1
EmptyParam == 0

\* a response: the request succeeds or withRetry gives up on it; data.length;
\* links.next is present or not; the page[cursor] parameter of links.next
Responses ==
  {r \in [ok : BOOLEAN, size : 0..MaxPageSize, hasNext : BOOLEAN,
          param : {NoParam, EmptyParam} \cup 1..MaxPageCursor] :
     /\ ~r.hasNext => r.param = NoParam
     /\ ~r.ok => (r.size = 0 /\ ~r.hasNext)}

\* Mutant: an empty page ends the iteration
NextCursor_untilEmpty(r) ==
  IF r.size > 0 /\ r.hasNext /\ r.param \notin {NoParam, EmptyParam} THEN r.param ELSE 0
\* lines 107-113: nextUrl ? new URL(nextUrl).searchParams.get('page[cursor]')
\* || undefined : undefined
NextCursor(r) ==
  IF r.hasNext /\ r.param \notin {NoParam, EmptyParam} THEN r.param ELSE 0

\* lines 103-114: one pass of the do-while loop: the fetch through withRetry and
\* the limiter, the yield of result.body.data, the next cursor
FetchPage ==
  /\ fapc = "fetch"
  /\ Len(faCalls) < MaxFetches
  /\ faCalls' = Append(faCalls, faNext)
  /\ LET r == faServer[faNext]
     IN IF r.ok
          THEN /\ faOut' = Append(faOut, [cursor |-> faNext, size |-> r.size])
               /\ faNext' = NextCursor(r)
               /\ fapc' = IF NextCursor(r) # 0 THEN "fetch" ELSE "done"
          ELSE /\ fapc' = "threw"
               /\ UNCHANGED <<faOut, faNext>>
  /\ UNCHANGED faServer
  /\ UNCHANGED <<auxFrame, mrVars, wrVars>>

FaIdle ==
  /\ faServer = [c \in PageCursors |->
                   [ok |-> TRUE, size |-> 0, hasNext |-> FALSE, param |-> NoParam]]
  /\ faNext = 0
  /\ faCalls = <<>>
  /\ faOut = <<>>
  /\ fapc = "idle"

\* line 102: let next = undefined
FaInputs ==
  /\ faServer \in [PageCursors -> Responses]
  /\ faNext = 0
  /\ faCalls = <<>>
  /\ faOut = <<>>
  /\ fapc = "fetch"

FaNext == FetchPage

\* =========================================================================
\*  Part 9: Klaviyo.withRetry, the options handed to backOff
\* =========================================================================

\* numOfAttempts: 100
WrNumOfAttempts == 100
\* startingDelay: 30 * 1000, in seconds
StartingDelay == 30
\* maxDelay: 2 * 60 * 1000, in seconds
MaxDelay == 120
\* timeMultiple: 2
TimeMultiple == 2
\* exponents above this one leave the product above maxDelay all the same
MaxExponent == 16
SatPow(b, e) == b ^ (IF e > MaxExponent THEN MaxExponent ELSE e)

\* Mutant: maxDelay is not applied
DelayBefore_uncapped(n) == StartingDelay * SatPow(TimeMultiple, n - 1)
\* the delay before the attempt that follows n failed ones: startingDelay *
\* timeMultiple^(n - 1), at most maxDelay (the first attempt is not delayed)
DelayBefore(n) ==
  LET d == StartingDelay * SatPow(TimeMultiple, n - 1)
  IN IF d > MaxDelay THEN MaxDelay ELSE d

\* an attempt settles: fn resolves, or rejects with an HTTP status; backOff
\* counts the failure, asks retry(e) and gives up at numOfAttempts
WrAttempt(status) ==
  /\ wrpc = "attempt"
  /\ IF status = 200
       THEN /\ wrpc' = "done"
            /\ UNCHANGED <<wrAttempt, wrError, wrThrown>>
       ELSE /\ wrAttempt' = wrAttempt + 1
            /\ wrError' = status
            /\ IF RetryPredicate(status) /\ wrAttempt + 1 < WrNumOfAttempts
                 THEN wrpc' = "delay" /\ UNCHANGED wrThrown
                 ELSE wrpc' = "failed" /\ wrThrown' = status
  /\ UNCHANGED <<wrDelays, wrWait>>
  /\ UNCHANGED <<auxFrame, mrVars, faVars>>

\* the delay before the next attempt is over
WrDelay ==
  /\ wrpc = "delay"
  /\ wrWait' = DelayBefore(wrAttempt)
  /\ wrDelays' = wrDelays + 1
  /\ wrpc' = "attempt"
  /\ UNCHANGED <<wrAttempt, wrError, wrThrown>>
  /\ UNCHANGED <<auxFrame, mrVars, faVars>>

WrIdle ==
  /\ wrAttempt = 0
  /\ wrDelays = 0
  /\ wrWait = 0
  /\ wrError = 0
  /\ wrThrown = 0
  /\ wrpc = "idle"

WrInputs ==
  /\ wrAttempt = 0
  /\ wrDelays = 0
  /\ wrWait = 0
  /\ wrError = 0
  /\ wrThrown = 0
  /\ wrpc = "attempt"

WrNext ==
  \/ \E status \in Statuses : WrAttempt(status)
  \/ WrDelay

AuxIdle == MrIdle /\ FaIdle /\ WrIdle

ExtIdle == V2Idle /\ AuxIdle

UnitIdle == ManagerIdle /\ UpdateIdle /\ ExtIdle

\* =========================================================================

DriverIdle ==
  /\ catalog = <<>>
  /\ deps = {}
  /\ backfill = FALSE
  /\ sliced = FALSE
  /\ maxSliceFailures = {}
  /\ maxStreamFailures = {}
  /\ checkpointInterval = 0
  /\ state0 = [s \in Streams |-> Absent]
  /\ connectorState = state0
  /\ streamState = EmptyState
  /\ dpc = "idle"
  /\ si = 1
  /\ sliceNo = 1
  /\ sliceRecordCounter = 0
  /\ streamRecordCounter = 0
  /\ failedSlices = <<>>
  /\ failedStreams = <<>>
  /\ pendingError = NoError
  /\ readError = NoError
  /\ hooks = [before |-> 0, after |-> 0]
  /\ nrec = 0
  /\ out = <<>>

\* the sync driver
Init == DriverInit /\ PsrIdle /\ HttpIdle /\ ResumeIdle /\ UnitIdle
Next == DriverNext
Spec == Init /\ [][Next]_vars

ReadOver == dpc \in {"done", "failed"}

\* the spool of one shard, for every line length
SpoolInit == DriverIdle /\ HttpIdle /\ ResumeIdle /\ UnitIdle /\ PsrInputs({1}, {FALSE}, 1..MaxLineLen)
SpoolNext ==
  \/ PsrCall
  \/ \E s \in Shards : ProducerTouched(s)
  \/ \E s \in Shards, id \in Ids, c \in PCursors : GenYield(s, id, c)
  \/ \E s \in Shards : GenReturn(s)
  \/ \E s \in Shards : GenAbort(s)
  \/ \E s \in Shards : GenThrow(s)
  \/ \E s \in Shards : FsWrite(s)
  \/ \E s \in Shards : WriterClose(s)
  \/ ExternalAbort
  \/ ConsumerTop
  \/ ConsumerOpen
  \/ ReadIssue
  \/ ReadResume
  \/ YieldLine
  \/ ConsumerCleanup
SpecSpool == SpoolInit /\ [][SpoolNext]_vars

\* parallelSequentialRead over several shards
PsrInit == DriverIdle /\ HttpIdle /\ ResumeIdle /\ UnitIdle /\ PsrInputs(1..MaxShards, BOOLEAN, {1})
PsrNext ==
  \/ SpoolNext
  \/ \E s \in Shards : ProducerDequeue(s)
SpecPSR == PsrInit /\ [][PsrNext]_vars

\* parallelSequentialRead under the scheduling Node gives it: a continuation
\* that is ready runs, a file operation that was issued completes, throat starts
\* a queued wrapper when a slot is free, and a generator asked for its next
\* item after the abort raises the AbortError.  Whether a generator yields,
\* returns or fails, and whether the controller is aborted, stays open.
FairInit == DriverIdle /\ HttpIdle /\ ResumeIdle /\ UnitIdle /\ PsrInputs(1..MaxShards, {FALSE}, {1})
SpecPSRFair ==
  /\ FairInit
  /\ [][PsrNext]_vars
  /\ WF_vars(ConsumerTop)
  /\ WF_vars(ConsumerOpen)
  /\ WF_vars(ReadIssue)
  /\ WF_vars(ReadResume)
  /\ WF_vars(YieldLine)
  /\ WF_vars(ConsumerCleanup)
  /\ \A s \in Shards :
       /\ WF_vars(ProducerDequeue(s))
       /\ WF_vars(ProducerTouched(s))
       /\ WF_vars(GenAbort(s))
       /\ WF_vars(FsWrite(s))
       /\ WF_vars(WriterClose(s))

\* the Klaviyo client
\* the call sites of the calls; the calls are numbered in the order of their
\* kinds, since nothing else tells them apart
KindRank(k) == CASE k = "page" -> 1 [] k = "guarded" -> 2 [] OTHER -> 3
CallKinds ==
  {f \in [Calls -> Kinds] :
     \A c \in Calls : c + 1 \in Calls => KindRank(f[c]) <= KindRank(f[c + 1])}
HttpInit ==
  /\ DriverIdle
  /\ PsrIdle
  /\ ResumeIdle
  /\ UnitIdle
  /\ kind \in CallKinds
  /\ jst = [c \in Calls |-> "new"]
  /\ attempts = [c \in Calls |-> 0]
  /\ running = 0
  /\ reservoir = Steady
  /\ now = 0
  /\ nextRequest = 0
  /\ lastRefresh = 0
  /\ httpLog = <<>>
HttpNext ==
  \/ \E c \in Calls : Schedule(c)
  \/ \E c \in Calls : Dispatch(c)
  \/ \E c \in Calls, st \in Statuses : Respond(c, st)
  \/ \E c \in Calls : RetryDelayOver(c)
  \/ ReservoirRefresh
  \/ Tick
  \/ HttpAbort
SpecHttp == HttpInit /\ [][HttpNext]_vars

\* an AirbyteStateManager and its callers
ManagerInit ==
  DriverIdle /\ PsrIdle /\ HttpIdle /\ ResumeIdle /\ UpdateIdle /\ ExtIdle /\ ManagerInputs
SpecManager == ManagerInit /\ [][ManagerNext]_vars

\* one call of getUpdatedState
UpdateInit ==
  DriverIdle /\ PsrIdle /\ HttpIdle /\ ResumeIdle /\ ManagerIdle /\ ExtIdle /\ UpdateInputs
UpdateNext == GetUpdatedStateCall
SpecUpdate == UpdateInit /\ [][UpdateNext]_vars

\* one stream read by the V2 read path
V2Init ==
  DriverIdle /\ PsrIdle /\ HttpIdle /\ ResumeIdle /\ UpdateIdle /\ AuxIdle /\ V2Inputs
SpecV2 == V2Init /\ [][V2Next]_vars

\* one call of momentRanges
CoreIdle == DriverIdle /\ PsrIdle /\ HttpIdle /\ ResumeIdle /\ ManagerIdle /\ UpdateIdle /\ V2Idle
MrInit == CoreIdle /\ MrInputs /\ FaIdle /\ WrIdle
SpecRanges == MrInit /\ [][MrNext]_vars

\* one call of fetchAll
FaInit == CoreIdle /\ MrIdle /\ FaInputs /\ WrIdle
SpecFetchAll == FaInit /\ [][FaNext]_vars

\* one call of withRetry: a pending attempt settles and a running delay ends
\* (each attempt terminates, timers fire)
WrInit == CoreIdle /\ MrIdle /\ FaIdle /\ WrInputs
SpecRetryFair == WrInit /\ [][WrNext]_vars /\ WF_vars(WrNext)

\* a stream read twice
ResumeInit == DriverIdle /\ PsrIdle /\ HttpIdle /\ UnitIdle /\ ResumeInputs
SpecResume == ResumeInit /\ [][ResumeNext]_vars

\* =========================================================================
\*  Properties of the sync driver (specification Spec)
\* =========================================================================

\* message i of the run is a checkpoint STATE message
IsCheckpoint(i) == out[i].type = "STATE" /\ out[i].sourceStatus = ""
\* message i carries a cutoff for stream s
CarriesCutoff(i, s) == out[i].data[s].has
\* a RECORD of stream s with cursor value c was yielded before message i
RecordBefore(i, s, c) ==
  \E j \in 1..(i - 1) :
    out[j].type = "RECORD" /\ out[j].stream = s /\ out[j].cursor = c

\* C1 as stated: every cutoff a checkpoint STATE message carries for a stream is
\* the cursor value of a RECORD of that stream yielded earlier in the run.
C1_Original ==
  \A i \in 1..Len(out) : \A s \in Streams :
    (IsCheckpoint(i) /\ CarriesCutoff(i, s)) =>
      RecordBefore(i, s, out[i].data[s].cutoff)

\* C1, amended: every cutoff a message of the run carries for a stream is either
\* the cutoff the initial state held for that stream or the cursor value of a
\* RECORD of that stream yielded earlier in the run.
C1_WriteAfterEmit ==
  \A i \in 1..Len(out) : \A s \in Streams :
    CarriesCutoff(i, s) =>
      \/ state0[s].has /\ state0[s].cutoff = out[i].data[s].cutoff
      \/ RecordBefore(i, s, out[i].data[s].cutoff)

\* a checkpoint carries a cutoff that a record of this run produced
C1_Witness ==
  \E i \in 1..Len(out) : \E s \in Streams :
    /\ IsCheckpoint(i) /\ CarriesCutoff(i, s)
    /\ ~(state0[s].has /\ state0[s].cutoff = out[i].data[s].cutoff)
    /\ RecordBefore(i, s, out[i].data[s].cutoff)

\* C2: for every stream, the cutoff values carried by the successive
\* state-carrying messages of a run never decrease, whatever the order of the
\* records' cursor values.
C2_CutoffMonotone ==
  \A s \in Streams : \A i, j \in 1..Len(out) :
    (i < j /\ CarriesCutoff(i, s) /\ CarriesCutoff(j, s)) =>
      out[i].data[s].cutoff <= out[j].data[s].cutoff

\* two records arrive with decreasing cursor values and a checkpoint follows
\* the second one
C2_Witness ==
  \E i, j, k \in 1..Len(out) : \E s \in Streams :
    /\ i < j /\ j < k
    /\ out[i].type = "RECORD" /\ out[i].stream = s
    /\ out[j].type = "RECORD" /\ out[j].stream = s
    /\ out[j].cursor < out[i].cursor
    /\ IsCheckpoint(k) /\ CarriesCutoff(k, s)

\* C6 as stated: with backfill on, the state map at the end of read equals the
\* state map read was given.
C6_Original == (backfill /\ ReadOver) => connectorState = state0

\* =========================================================================
\*  Properties of parallelSequentialRead (specifications SpecPSR, SpecPSRFair)
\* =========================================================================

\* the record was read from its shard with a cursor value inside the window the
\* next shard deduplicates against
ReadInWindow(r) == r.cursor = 0 \/ r.cursor > ShardFrom(r.shard + 1) - TwoMinutes

C4_ShardOrder ==
  \A i, j \in 1..Len(drained) :
    (i < j /\ ~drained[i].skipped /\ ~drained[j].skipped) =>
      \/ drained[i].shard < drained[j].shard
      \/ drained[i].shard = drained[j].shard /\ drained[i].idx < drained[j].idx

\* the producer of a later shard has finished and closed its file while the
\* producer of the shard being drained still runs, and the orchestrator has
\* yielded two records of the earlier shard
C4_Witness ==
  \E s \in Shards :
    /\ s < nShards
    /\ ppc[s + 1] = "closed" /\ written[s + 1] # <<>>
    /\ ppc[s] \in {"loop", "drain", "ending"}
    /\ Len(drained) = 2
    /\ drained[1].shard = s /\ drained[2].shard = s

\* C5 as stated: once a producer has failed with an error that is not the
\* AbortError, parallelSequentialRead does not complete normally.
C5_Original ==
  [][(firstError # 0 /\ cpc # "returned") => cpc' # "returned"]_vars

\* every wrapper, producer and reader has ended
AllTerminated ==
  /\ cpc \in {"returned", "threw"}
  /\ \A s \in Shards : ppc[s] \in {"none", "notstarted", "closed"}

\* C8: once the controller is aborted, every producer, the reader and
\* parallelSequentialRead itself eventually end.
C8_Terminates == aborted ~> AllTerminated

\* the controller was aborted while a producer had a write pending and the
\* reader was waiting, and everything has ended
C8_Witness ==
  /\ aborted
  /\ AllTerminated
  /\ \E s \in Shards : written[s] # <<>> /\ Len(file[s]) > 0
  /\ psrError = ""

\* =========================================================================
\*  Properties of the spool (specification SpecSpool)
\* =========================================================================

\* the indices of the records process() handed over, in order
DrainedIdx == [i \in 1..Len(drained) |-> drained[i].idx]

\* C9 as stated: no line fails to parse, and when process() returns without an
\* abort it has yielded the records written, each once and in write order.
C9_Original ==
  /\ psrError # "SyntaxError"
  /\ (cpc = "cleanup" /\ ~aborted) =>
       DrainedIdx = [i \in 1..Len(written[CurShard]) |-> i]

\* C10 as stated: process() returns, when no abort was signalled, only after the
\* writer is done and every byte written has been read.
C10_Original ==
  (cpc = "cleanup" /\ ~aborted) =>
    /\ isDone[CurShard]
    /\ pos = Len(written[CurShard]) * (lineLen + 1)

\* =========================================================================
\*  Properties of the Klaviyo client (specification SpecHttp)
\* =========================================================================

\* C7 as stated: no HTTP request is sent after the controller was aborted.
C7_Original == \A i \in 1..Len(httpLog) : ~httpLog[i].afterAbort

\* =========================================================================
\*  Properties of the sync driver, continued (specification Spec)
\* =========================================================================

\* message i is a RECORD of stream s
IsRecordOf(i, s) == out[i].type = "RECORD" /\ out[i].stream = s

\* C11: for every dependency of a requested stream on a requested stream, every
\* RECORD of the dependency precedes every RECORD of the dependent stream.
C11_DependenciesFirst ==
  \A e \in streamDeps : \A i, j \in 1..Len(out) :
    (IsRecordOf(i, e[1]) /\ IsRecordOf(j, e[2])) => i < j

\* the catalog lists the dependent stream first, and a record of each of the
\* two streams was read
C11_Witness ==
  \E e \in streamDeps :
    /\ catalog[1] = e[2]
    /\ \E i, j \in 1..Len(out) : IsRecordOf(i, e[1]) /\ IsRecordOf(j, e[2])

\* =========================================================================
\*  Properties of the limiter (specification SpecHttp), continued
\* =========================================================================

\* number of requests sent at a time in [t, t + RefreshInterval)
DispatchedInWindow(t) ==
  Cardinality({i \in 1..Len(httpLog) :
                 httpLog[i].at >= t /\ httpLog[i].at < t + RefreshInterval})

\* C12: in every window as long as the refresh interval, the requests sent
\* through the limiter (retry attempts included) do not exceed the steady budget
C12_Original == \A t \in 0..MaxNow : DispatchedInWindow(t) <= Steady

\* C13: two consecutive requests sent through the limiter are at least minTime
\* apart, however many callers have scheduled calls
C13_MinTime ==
  \A i \in 2..Len(httpLog) : httpLog[i].at - httpLog[i - 1].at >= MinTime
\* two callers are scheduled at the same time and both requests have been sent
C13_Witness ==
  \E i \in 2..Len(httpLog) :
    /\ httpLog[i].call # httpLog[i - 1].call
    /\ httpLog[i].at - httpLog[i - 1].at = MinTime

\* calls whose request was sent and has not settled
InFlight == {c \in Calls : jst[c] = "inflight"}
\* C14: at most maxConcurrent calls are in flight at any time
C14_MaxConcurrent == Cardinality(InFlight) <= MaxConcurrent
\* the limit is reached and holds back a call that nothing else holds back
C14_Witness ==
  /\ Cardinality(InFlight) = MaxConcurrent
  /\ \E c \in Calls : jst[c] = "queued"
  /\ reservoir > 0
  /\ SpacingOk

\* =========================================================================
\*  Properties of the sync driver (specification Spec), continued
\* =========================================================================

\* the failed-stream count n is within the budget max_stream_failures
WithinStreamBudget(n) ==
  maxStreamFailures = {-1} \/ \E k \in maxStreamFailures : n <= k

\* C15: when a stream fails, with a budget the stream is recorded as failed and,
\* as long as the failed streams are within the budget (always with -1), the
\* next stream is read; without a budget read fails with the stream's own error
C15_StreamBudget ==
  [][dpc = "caught" =>
       IF maxStreamFailures = {}
         THEN dpc' = "failed" /\ readError' = pendingError
         ELSE /\ failedStreams' = Append(failedStreams, CurStream)
              /\ readError' = NoError
              /\ (WithinStreamBudget(Len(failedStreams'))) =>
                    (dpc' = "stream" /\ si' = si + 1)]_vars
\* under the budget 1 the first stream failed and the second is being read
C15_Witness ==
  /\ maxStreamFailures = {1}
  /\ Len(failedStreams) = 1
  /\ si = 2
  /\ dpc = "records"

\* read has ended after it entered its stream loop
ReadEnded ==
  dpc \in {"done", "failed"} /\ readError.name \notin {"CyclicDependency", "NotFound"}
SourceSuccess(m) == m.type = "STATE" /\ m.sourceStatus = "SUCCESS"
\* the streams for which an ERRORED status was emitted
ErroredStreams ==
  {out[i].stream : i \in {j \in 1..Len(out) : out[j].sourceStatus = "ERRORED"}}
SeqRange(q) == {q[i] : i \in 1..Len(q)}

CursorsBefore(i, s) ==
  {out[j].cursor : j \in {k \in 1..(i - 1) : IsRecordOf(k, s)}}
\* the watermark of stream s after the records emitted before message i
WatermarkBefore(i, s) ==
  LET vals == CursorsBefore(i, s) \cup (IF state0[s].has THEN {state0[s].cutoff} ELSE {})
  IN CHOOSE v \in vals : \A w \in vals : w <= v

\* C17: outside a backfill, an ERRORED status emitted for a stream after records
\* of that stream carries, for that stream, the watermark of those records
C17_Original ==
  ~backfill =>
    \A i \in 1..Len(out) :
      (out[i].sourceStatus = "ERRORED" /\ CursorsBefore(i, out[i].stream) # {}) =>
        out[i].data[out[i].stream] = Cutoff(WatermarkBefore(i, out[i].stream))

\* the failed-slice count n is within the budget max_slice_failures
WithinSliceBudget(n) ==
  maxSliceFailures = {-1} \/ \E k \in maxSliceFailures : n <= k

\* what holds of the failed slices in every state of a stream read
SliceBudgetKept ==
  /\ (dpc \in {"slice", "records"}) =>
       (maxSliceFailures = {} \/ WithinSliceBudget(Len(failedSlices)))
  /\ (dpc = "success") => (failedSlices = <<>>)
  /\ (dpc = "caught" /\ failedSlices # <<>>) =>
       (pendingError = ErrorOf("VError", failedSlices))
\* what holds of every step that handles the error of a slice
SliceErrorHandled ==
  /\ (dpc = "records" /\ failedSlices' # failedSlices) =>
       (/\ HasSlice /\ maxSliceFailures # {}
        /\ failedSlices' = Append(failedSlices, sliceNo)
        /\ IF WithinSliceBudget(Len(failedSlices'))
             THEN dpc' = "slice" /\ sliceNo' = sliceNo + 1
             ELSE dpc' = "after")
  /\ (dpc = "records" /\ dpc' = "caught") =>
       (/\ ~HasSlice \/ maxSliceFailures = {}
        /\ pendingError' = ErrorOf("Error", <<>>)
        /\ out' = out /\ connectorState' = connectorState)
  /\ (dpc = "after") => (dpc' = "caught")

\* C19: a slice is recorded as failed only if it has an identity and a budget
\* is configured, and the next slice is read as long as the failed slices are
\* within the budget; beyond the budget no slice is read; a stream with a failed
\* slice never succeeds and fails with an error listing its failed slices; an
\* error of a slice without identity or without budget is re-raised unchanged
C19_SliceBudget == []SliceBudgetKept /\ [][SliceErrorHandled]_vars
\* under the budget 1 the first slice failed and the second is being read
C19_Witness ==
  /\ maxSliceFailures = {1}
  /\ failedSlices = <<1>>
  /\ sliceNo = 2
  /\ dpc = "records"

\* C20: a NonFatalError raised while a slice is read yields a status message
\* with source status RUNNING that carries the stream's current state; the
\* slice is not counted as failed and the next slice follows
C20_NonFatal ==
  [][SliceNonFatal =>
       /\ Len(out') = Len(out) + 1
       /\ out'[Len(out')].sourceStatus = "RUNNING"
       /\ out'[Len(out')].streamStatus = "ERROR"
       /\ out'[Len(out')].stream = CurStream
       /\ out'[Len(out')].data[CurStream] = streamState
       /\ failedSlices' = failedSlices
       /\ dpc' = "slice" /\ sliceNo' = sliceNo + 1]_vars
\* a stream ends with the per-stream SUCCESS status after a non-fatal error
C20_Witness ==
  \E i, j \in 1..Len(out) :
    /\ i < j
    /\ out[i].sourceStatus = "RUNNING" /\ out[i].streamStatus = "ERROR"
    /\ out[j].streamStatus = "SUCCESS" /\ out[j].stream = out[i].stream

\* =========================================================================
\*  Properties of the resumed read (specification SpecResume)
\* =========================================================================

IsStreamSuccess(j) == out[j].type = "STATE" /\ out[j].streamStatus = "SUCCESS"
\* the messages emitted while the stream of status message j was read: the
\* longest run of messages before j that no other stream and no start of read
\* is part of
SpanOf(j) ==
  {i \in 1..(j - 1) :
     \A m \in i..(j - 1) :
       out[m].type # "CONFIG" /\ out[m].stream \in {"", out[j].stream}}
\* the stream state after the records of stream s emitted before message j
FinalState(j, s) ==
  IF CursorsBefore(j, s) = {} /\ ~state0[s].has THEN EmptyState
  ELSE Cutoff(WatermarkBefore(j, s))
\* streamSlices of stream s: the slices it yields
NumSlicesOf(s) == IF sliced /\ s = "A" THEN NSlices ELSE 1

C22_Original ==
  \A i \in 1..Len(out) : out[i].type = "RECORD" =>
    \E r \in 1..(i - 1) : out[r].type = "STATE" /\ out[r].sourceStatus = "RUNNING"

\* the catalog requests a stream that this.streams(config) does not return
NamesUnknownStream ==
  \E i \in 1..Len(catalog) : \A k \in 1..Len(streamInstances) :
    streamInstances[k] # catalog[i]

SetKeepsOthers ==
  \A s \in SmStreams :
    (\E v \in 1..MaxBlob, gv \in 0..1 : SetStateForStream(s, v, gv)) =>
      (\A b \in SmStreams \ {s} : getStateForStream(b)' = getStateForStream(b))
\* a change of an object the caller holds leaves the stored state and the
\* envelopes as they were
MutateKeepsStore ==
  (\E o \in ObjIds, v \in BlobVals : Mutate(o, v)) =>
    (\A s \in SmStreams :
       /\ getStateForStream(s)' = getStateForStream(s)
       /\ getAirbyteMessageEnvelope(s)' = getAirbyteMessageEnvelope(s))
\* C24: setStateForStream for one stream never changes what getStateForStream
\* returns for another stream, and changing an object that getStateForStream
\* returned or that was passed to setStateForStream never changes the stored
\* state or an envelope built afterwards
C24_Original == [][SetKeepsOthers /\ MutateKeepsStore]_vars

\* the envelope that mirrors the input state for stream s
ExpectedEnvelope(inp, s) ==
  IF inp.type = "GLOBAL"
    THEN [type |-> "GLOBAL", name |-> "", shared |-> Blob(inp.shared),
          states |-> [k \in InputKeys(inp) |-> Blob(inp.states[k])]]
    ELSE [type |-> "STREAM", name |-> s, shared |-> Blob(0),
          states |-> [k \in {s} |-> Blob(IF s \in InputKeys(inp) THEN inp.states[s] ELSE 0)]]
FreshEnvelopeMirrorsInput ==
  \A s \in SmStreams :
    (GetAirbyteMessageEnvelope(s) /\ ~smWritten) =>
      (smEnvelope' = ExpectedEnvelope(smInput, s))
\* C25: an envelope asked for before any write has the input's shape and
\* content: a GLOBAL input gives a GLOBAL envelope with the input's shared_state
\* and each stream's input stream_state, a per-stream input gives a STREAM
\* envelope with that stream's input stream_state
C25_Original == [][FreshEnvelopeMirrorsInput]_vars

\* C28: getUpdatedState(current, record) returns {cutoff: max(current.cutoff,
\* epoch_ms(record[cursorField]))}, with 0 for a current state that is undefined
\* or has no cutoff; getUpdatedState(undefined, record) is the record's cursor time
C28_Original ==
  guResult.called =>
    guResult = Returned(Cutoff(Max(IF guCurrent.has THEN guCurrent.cutoff ELSE 0,
                                   EpochMs(guRecord))))

\* a response with a failure status: status 400 ends the call at once, any other
\* failure is followed by the backoff delay while attempts remain
RetryDecision ==
  \A c \in Calls, st \in Statuses \ {200} :
    Respond(c, st) =>
      IF st = 400 THEN jst'[c] = "failed"
      ELSE (attempts'[c] < NumOfAttempts) => (jst'[c] = "backoff")
CancelledCallsLeave ==
  aborted =>
    /\ reservoir' >= reservoir
    /\ \A c \in Calls : (jst[c] = "queued") => (jst'[c] # "inflight")
\* C27: a caller cancelled while its call waits in an endpoint's limiter leaves
\* the queue without being dispatched and without consuming a reservoir token
C27_Original == [][CancelledCallsLeave]_vars

\* C29: Events reads its shards with dedup enabled: an id handed over by shard i
\* and again by shard i+1 is emitted once, the second occurrence is dropped
\* because the id is in lastIds
C29_Original ==
  (dedupe = EventsDedupe) =>
    \A i, j \in 1..Len(drained) :
      (/\ i < j
       /\ drained[j].shard = drained[i].shard + 1
       /\ drained[j].id = drained[i].id) => (drained[j].skipped /\ drained[j].id \in lastIds)

\* C30: when a call of parallelSequentialRead returns normally, every spool file
\* it created has been removed, the files of shards never drained included
C30_Original ==
  (cpc = "returned") => \A s \in 1..nShards : ~fileExists[s]

\* =========================================================================
\*  Properties of the sync driver (specification Spec), continued
\* =========================================================================

\* one iteration of the record loop outside a backfill: the RECORD is yielded,
\* and after each k-th record of the slice a checkpoint STATE follows it at once,
\* carrying the whole state map with the stream's new watermark
EveryKthRecord ==
  (dpc = "records" /\ nrec' = nrec + 1 /\ ~backfill) =>
    LET n == Len(out)
        k == checkpointInterval
    IN IF k > 0 /\ sliceRecordCounter' % k = 0
         THEN /\ Len(out') = n + 2
              /\ out'[n + 1].type = "RECORD"
              /\ out'[n + 2].type = "STATE" /\ out'[n + 2].sourceStatus = ""
              /\ out'[n + 2].data = connectorState'
              /\ connectorState'[CurStream] = streamState'
              /\ streamState' = getUpdatedState(streamState, out'[n + 1].cursor)
         ELSE /\ Len(out') = n + 1
              /\ out'[n + 1].type = "RECORD"
\* a slice that ends without an error outside a backfill yields one STATE
SliceEndState ==
  (SliceEnd /\ ~backfill) =>
    /\ Len(out') = Len(out) + 1
    /\ out'[Len(out')].type = "STATE" /\ out'[Len(out')].sourceStatus = ""
    /\ out'[Len(out')].data = connectorState'
\* a slice with records has just ended with its checkpoint
SliceJustEnded ==
  dpc = "slice" /\ sliceRecordCounter > 0 /\ ~backfill /\ IsCheckpoint(Len(out))

\* C32 as stated: a checkpoint STATE follows each k-th record of a slice, one
\* STATE is emitted when the slice ends, and inside a slice no two STATE messages
\* follow each other without a RECORD between them
C32_Original ==
  /\ [][EveryKthRecord /\ SliceEndState]_vars
  /\ [](SliceJustEnded => out[Len(out) - 1].type = "RECORD")

\* the STATE of the slice end follows the last RECORD of the slice, or the
\* checkpoint of that record when the record count is a multiple of k
SliceEndFollows ==
  SliceJustEnded =>
    LET n == Len(out)
        k == checkpointInterval
    IN IF k > 0 /\ sliceRecordCounter % k = 0
         THEN /\ IsCheckpoint(n - 1)
              /\ out[n - 1].data = out[n].data
              /\ out[n - 2].type = "RECORD"
         ELSE out[n - 1].type = "RECORD"
\* C32, amended: outside a backfill a checkpoint STATE with the whole state map
\* follows each k-th record of a slice directly, one STATE is emitted when the
\* slice ends, and that STATE follows the slice's last RECORD directly unless
\* the slice's record count is a multiple of k, in which case it follows the
\* checkpoint of the last record and repeats it
C32_Checkpoints ==
  /\ [][EveryKthRecord /\ SliceEndState]_vars
  /\ []SliceEndFollows
\* a slice of two records has ended under the interval 2: the checkpoint of the
\* second record is followed by the STATE of the slice end
C32_Witness ==
  /\ SliceJustEnded
  /\ checkpointInterval = 2
  /\ sliceRecordCounter = 2
  /\ IsCheckpoint(Len(out) - 1)

\* =========================================================================
\*  Properties of the V2 read path (specification SpecV2)
\* =========================================================================

\* the STATE envelopes of the run that carry an entry for the stream read
V2Carrying == {i \in 1..Len(v2Out) : v2Out[i].kind = "STATE"
                                     /\ v2Name \in DOMAIN v2Out[i].env.states}
V2Cutoff(i) == v2Out[i].env.states[v2Name].cutoff
\* C31: in the V2 read path the cutoff carried by the successive STATE envelopes
\* of a stream is non-decreasing and never below the cutoff of the input state
C31_Original ==
  /\ \A i, j \in V2Carrying : i < j => V2Cutoff(i) <= V2Cutoff(j)
  /\ \A i \in V2Carrying : smInput.states[v2Name] <= V2Cutoff(i)


\* ---------------------------------------------------------------------------
\* C39: in every stream run in which onBeforeRead was called, onAfterRead has
\* been called exactly once when the run ends, whether it ends normally, with
\* the aggregate slice-failure error or with a re-raised error.
StreamRunEnded == dpc \in {"success", "caught"}

C39_Original ==
  (StreamRunEnded /\ hooks.before > 0) => hooks.after = 1


\* ---------------------------------------------------------------------------
\* C38: while a stream S is read, the state entry of every other stream T is
\* left alone: no step of S's run changes connectorState[T], and every STATE
\* or status message yielded in S's run carries T's entry as it was. An error
\* in S never alters T's entry.
InStreamRun == dpc \in {"slice", "records", "after", "caught", "success"}

OthersUntouched(T) ==
  /\ connectorState'[T] = connectorState[T]
  /\ \A i \in (Len(out) + 1)..Len(out') :
       out'[i].type = "STATE" => out'[i].data[T] = connectorState[T]

C38_OtherStreamsFrame ==
  [][\A T \in Streams : (InStreamRun /\ T # CurStream) => OthersUntouched(T)]_vars

\* stream A failed in a slice after it had moved its own entry, while B's
\* entry from the input state is carried unchanged by the error status
C38_Witness ==
  \E i \in 1..Len(out) :
    /\ out[i].streamStatus = "ERROR"
    /\ out[i].stream = "A"
    /\ out[i].data["A"] # state0["A"]
    /\ state0["B"] # Absent
    /\ out[i].data["B"] = state0["B"]


\* the callback of call c runs after the abort and raises the cancellation error
CancellationRaised(c) ==
  /\ jst[c] = "queued"
  /\ aborted
  /\ CallbackChecksAbort(kind[c])
  /\ jst'[c] # "queued"
\* C40: after the abort, a rate-limited sub-request whose callback raises the
\* cancellation error is not attempted again: withLimiter fails with that error
\* at once, with no backoff delay and no further limiter token
C40_Original ==
  [][\A c \in Calls : CancellationRaised(c) => jst'[c] = "failed"]_vars


\* the producers that were started and whose writer has not closed
ProducersRunning == {s \in Shards : ppc[s] \in {"touch", "loop", "drain", "ending"}}
ProducerStarted(s) == ppc[s] \in {"touch", "loop", "drain", "ending", "closed"}

\* C37: at any time at most `parallel` shard producers of one call are running,
\* producers are started in shard order, and a producer whose turn comes after
\* the controller was aborted is never started.
C37_ProducerGate ==
  /\ [](Cardinality(ProducersRunning) <= parallel)
  /\ [](\A s \in Shards : ProducerStarted(s) => \A r \in 1..(s - 1) : ppc[r] # "queued")
  /\ [][\A s \in Shards :
          /\ (aborted /\ ppc[s] = "queued") => ppc'[s] \in {"queued", "notstarted"}
          /\ ppc[s] = "notstarted" => ppc'[s] = "notstarted"]_vars

\* with one slot for two shards, the second producer waited for the first to
\* finish; the controller was aborted meanwhile and the second never started
C37_Witness ==
  /\ parallel = 1 /\ nShards = 2
  /\ ppc[1] = "closed" /\ written[1] # <<>>
  /\ ppc[2] = "notstarted"


\* the drained record r made the orchestrator call currentIds.add: dedupe is on,
\* its shard has a successor, and its cursor is missing or inside the window
KeyInserted(r) ==
  /\ dedupe
  /\ r.pass < nShards
  /\ (r.cursor = 0 \/ r.cursor > ShardFrom(r.pass + 1) - TwoMinutes)
\* as the claim has it: only a cursor value after the cutoff inserts the key
KeyInsertedByCursor(r) ==
  /\ dedupe
  /\ r.pass < nShards
  /\ r.cursor # 0 /\ r.cursor > ShardFrom(r.pass + 1) - TwoMinutes
InsertedKeys(p) ==
  {drained[j].id : j \in {n \in 1..Len(drained) : drained[n].pass = p /\ KeyInserted(drained[n])}}
CursorKeys(p) ==
  {drained[j].id : j \in {n \in 1..Len(drained) :
                            drained[n].pass = p /\ KeyInsertedByCursor(drained[n])}}

\* the step that follows the drain of a shard: cleanup() and the rotation of
\* the key sets, lines 319-322
Rotated == cpc = "cleanup" /\ cpc' # "cleanup"

ShardCount(o) == Cardinality({k \in 0..MaxTo : o.from + k * o.step < MrTo(o)})
\* overlap_0 = startOverlap, overlap_k = stepOverlap for k > 0
OverlapOf(o, k) == IF k = 0 THEN MrStartOverlap(o) ELSE MrStepOverlap(o)
\* shard k as the claim has it
ExpectedRange(o, k) ==
  [from |-> o.from + k * o.step - OverlapOf(o, k),
   to |-> o.from + (k + 1) * o.step + MrStepOverlap(o)]
\* shard k without its widening
UnwidenedFrom(k) == mrRanges[k + 1].from + OverlapOf(mrIn, k)
UnwidenedTo(k) == mrRanges[k + 1].to - MrStepOverlap(mrIn)

\* C35: momentRanges returns one shard for each k >= 0 with from + k*step < to,
\* in ascending order of k, none when from >= to; shard k is
\* [from + k*step - overlap_k, from + (k+1)*step + stepOverlap); the unwidened
\* ranges are contiguous and cover [from, to).
C35_MomentRanges ==
  mrpc = "returned" =>
    LET n == Len(mrRanges)
    IN /\ n = ShardCount(mrIn)
       /\ (mrIn.from >= MrTo(mrIn)) => n = 0
       /\ \A k \in 0..(n - 1) : mrRanges[k + 1] = ExpectedRange(mrIn, k)
       /\ \A k \in 0..(n - 2) : UnwidenedTo(k) = UnwidenedFrom(k + 1)
       /\ n > 0 => (UnwidenedFrom(0) = mrIn.from /\ UnwidenedTo(n - 1) >= MrTo(mrIn))

\* three shards, the first widened by startOverlap and the others by a
\* different stepOverlap, the last one reaching beyond `to`
C35_Witness ==
  /\ mrpc = "returned"
  /\ Len(mrRanges) = 3
  /\ mrIn.step = 2
  /\ MrStartOverlap(mrIn) = 2 /\ MrStepOverlap(mrIn) = 1
  /\ UnwidenedTo(2) > MrTo(mrIn)


\* =========================================================================
\*  Properties of fetchAll (specification SpecFetchAll)
\* =========================================================================

\* the response to the i-th fetch
ResponseTo(i) == faServer[faCalls[i]]
\* the fetches that succeeded
SuccessfulFetches == {i \in 1..Len(faCalls) : ResponseTo(i).ok}

\* the response names a next page: links.next with a non-empty page[cursor]
HasNextCursor(r) == r.hasNext /\ r.param >= 1

\* C34: fetchAll yields one page per successful fetch, in fetch order; the
\* first fetch has no cursor and every later one the next cursor of the
\* response before it; an empty page with a next cursor does not end the
\* iteration; fetchAll stops exactly after the first response without a next
\* cursor.
C34_FetchAll ==
  /\ Len(faOut) = Cardinality(SuccessfulFetches)
  /\ \A i \in 1..Len(faOut) :
       /\ ResponseTo(i).ok
       /\ faOut[i] = [cursor |-> faCalls[i], size |-> ResponseTo(i).size]
  /\ \A i \in 1..Len(faCalls) :
       faCalls[i] = IF i = 1 THEN 0 ELSE ResponseTo(i - 1).param
  /\ \A i \in 1..(Len(faCalls) - 1) : HasNextCursor(ResponseTo(i))
  /\ fapc = "done" <=>
       /\ faCalls # <<>>
       /\ ResponseTo(Len(faCalls)).ok
       /\ ~HasNextCursor(ResponseTo(Len(faCalls)))
  /\ (fapc = "fetch" /\ faCalls # <<>>) => HasNextCursor(ResponseTo(Len(faCalls)))

\* the first page was empty and had a next cursor, the second page was fetched
\* with that cursor and, having none, ended the iteration
C34_Witness ==
  /\ fapc = "done"
  /\ Len(faOut) = 2
  /\ faOut[1].size = 0
  /\ HasNextCursor(faServer[0]) /\ faOut[2].cursor = faServer[0].param
  /\ faOut[2].size > 0


\* =========================================================================
\*  Properties of withRetry (specification SpecRetryFair)
\* =========================================================================

\* the attempts made so far: the failed ones, and the one that succeeded or is
\* under way
AttemptsMade == wrAttempt + (IF wrpc \in {"attempt", "done"} THEN 1 ELSE 0)
\* min(30 s * 2^(n-1), 120 s)
ClaimedDelay(n) ==
  LET d == 30 * SatPow(2, n - 1) IN IF d < 120 THEN d ELSE 120

\* C36: withRetry makes at most 100 attempts, waits min(30 s * 2^(n-1), 120 s)
\* before the n-th retry, fails with the last error after the 100th failed
\* attempt, and ends when each attempt ends.
C36_WithRetry ==
  /\ [](AttemptsMade <= 100)
  /\ [](wrDelays = (IF wrpc = "delay" THEN wrAttempt - 1 ELSE
                    IF wrpc = "failed" /\ wrAttempt > 0 THEN wrAttempt - 1 ELSE wrAttempt))
  /\ []((wrpc = "attempt" /\ wrAttempt > 0) => wrWait = ClaimedDelay(wrAttempt))
  /\ []((wrpc = "failed" /\ wrAttempt = 100) => wrThrown = wrError)
  /\ [](wrpc = "failed" => (wrAttempt = 100 \/ wrThrown = 400))
  /\ <>(wrpc \in {"done", "failed"})

\* the 100th attempt failed after a wait at the cap and withRetry failed with
\* its error
C36_Witness ==
  /\ wrpc = "failed"
  /\ wrAttempt = 100
  /\ wrDelays = 99
  /\ wrWait = 120
  /\ wrThrown = 429

====
